---- MODULE Spec2Model ----
(***************************************************************************)
(* The graph-based limited-area models of pnia/models/nlam/models.py:      *)
(* the encode-process-decode forward pass (BaseGraphModel.predict_step),   *)
(* the hierarchical process step (BaseHiGraphModel.process_step) and its   *)
(* three processors (GraphLAM, HiLAMParallel, HiLAM).                      *)
(*                                                                         *)
(* A tensor of shape (B, n, d_h) is a record [b, d, rows]: rows is the     *)
(* node (or edge) axis, one identifier per row.  A row identifier names    *)
(* the computation that produced the row: [k, s, i] is row i of the        *)
(* output k ("n" node output, "e" edge output) of the s-th Interaction     *)
(* Net application of the call, or row i of a static embedding k of        *)
(* level s.  Python lists of per-level tensors are functions on 0..n-1.    *)
(***************************************************************************)
EXTENDS Integers, Sequences, FiniteSets, TLC

\* ------------------------------------------------------------------ bounds
MaxLevels == 3          \* hierarchical graphs have 2..MaxLevels levels
MaxLayers == 2          \* hp.graph.processor_layers ranges over 0..MaxLayers
GridNodes == 2          \* N_grid of every graph
GridStateDim == 2       \* grid_state_dim of the dataset
HiddenDim == 64         \* hp.graph.hidden_dim (the command line default)

NodeCounts == {1, 2}    \* nodes of one mesh level
EdgeCounts == {1, 2}    \* up (and down) edges between two levels
BatchSizes == {1, 2}
StateVals == {-1, 2}    \* value of one element of prev_state
NetVals == {-1, 0, 1}   \* value of one element of the network output
StepDiffStats == {[std |-> 2, mean |-> 0], [std |-> 3, mean |-> 1]}
AuxDims == [grid_static |-> 1, forcing |-> 1, batch_static |-> 1]

VARIABLES
    hp,               \* hyper-parameters: model name, processor_layers
    graph,            \* static graph data returned by load_graph
    self,             \* attributes the constructors compute
    other_attrs,      \* names of attributes of the model set outside models.py
    pc,               \* position of the (single) control thread
    prev_state,       \* argument of predict_step: [shape, val]
    batch_size,
    grid_rep,         \* (B, N_grid, d_h)
    m2g_emb,
    mesh_rep,         \* (B, N_mesh, d_h): argument / result of process_step
    mesh_rep_levels,  \* list, level l: (B, N_mesh[l], d_h)
    mesh_same_rep,    \* list, level l: (B, M_same[l], d_h)
    mesh_up_rep,      \* list, l -> l+1
    mesh_down_rep,    \* list, l <- l+1
    mesh_edge_rep,    \* joined edge representation of the parallel processor
    level_l,          \* loop variable of the level loops
    layer,            \* index of the processor layer / repetition being run
    ops,              \* the Interaction Net applications of this call, in order
    phaseLog,         \* phases of process_step entered in this call, in order
    procIn,           \* the four lists as passed to hi_processor_step
    procOut,          \* the four lists as returned by hi_processor_step
    repStart,         \* HiLAM: node lists at the start of the current repetition
    net_output,       \* output of output_map: [shape, val]
    result,           \* value returned by predict_step: [shape, val]
    args,             \* train_vincent.py: the parsed command line
    spc,              \* train_vincent.py: position of the script
    eval_loader,      \* train_vincent.py: local variable of main
    trainerLog,       \* train_vincent.py: the calls made on the trainer, in order
    importOutcome,    \* datasets: what importing each implementation does
    registry,         \* datasets: the names registered
    warningLog,       \* datasets: the warnings issued, in order
    rpc,              \* datasets: position of the package initialisation
    lookup,           \* datasets: the last get_datasets call and its outcome
    firstCall         \* history: arguments and outcome of the first call that returned

scriptVars == <<args, spc, eval_loader, trainerLog>>
registryVars == <<importOutcome, registry, warningLog, rpc, lookup>>
envVars == <<scriptVars, registryVars, firstCall>>
cfgVars == <<hp, graph, self, other_attrs, envVars>>
frameVars == <<prev_state, batch_size, grid_rep, m2g_emb, mesh_rep, mesh_rep_levels,
               mesh_same_rep, mesh_up_rep, mesh_down_rep, mesh_edge_rep, level_l,
               layer, ops, phaseLog, procIn, procOut, repStart, net_output, result>>
vars == <<hp, graph, self, other_attrs, pc, prev_state, batch_size, grid_rep, m2g_emb,
          mesh_rep, mesh_rep_levels, mesh_same_rep, mesh_up_rep, mesh_down_rep,
          mesh_edge_rep,
          level_l, layer, ops, phaseLog, procIn, procOut, repStart, net_output, result,
          envVars>>

\* ----------------------------------------------------------------- tensors
Rows(kind, src, n) == [i \in 1..n |-> [k |-> kind, s |-> src, i |-> i]]

Tensor(b, rows) == [b |-> b, d |-> HiddenDim, rows |-> rows]

NoTensor == Tensor(0, <<>>)

NoList == <<>>

NoLists == [nodes |-> NoList, same |-> NoList, up |-> NoList, down |-> NoList]

Shape(t) == <<t.b, Len(t.rows), t.d>>

\* A Python list as a function on 0..n-1.
ListLen(list) == Cardinality(DOMAIN list)

Min(a, b) == IF a <= b THEN a ELSE b

\* utils.make_mlp embedder applied to static features of n rows: (n, d_h).
Embed(kind, lvl, n) == Tensor(0, Rows(kind, lvl, n))

ExpandToBatch(t, B) == [t EXCEPT !.b = B]

\* torch.cat(list, dim=1) over tensors with the same batch and hidden dimensions.
RECURSIVE CatRows(_, _)
CatRows(list, n) ==
    IF n = 0 THEN <<>> ELSE CatRows(list, n - 1) \o list[n - 1].rows

CatOK(list) == \A i, j \in DOMAIN list : list[i].b = list[j].b /\ list[i].d = list[j].d

Cat(list) ==
    [b |-> IF ListLen(list) = 0 THEN 0 ELSE list[0].b,
     d |-> HiddenDim,
     rows |-> CatRows(list, ListLen(list))]

\* list1 + list2 of Python lists.
ListPlus(l1, l2) ==
    [i \in 0..(ListLen(l1) + ListLen(l2) - 1) |->
        IF i < ListLen(l1) THEN l1[i] ELSE l2[i - ListLen(l1)]]

\* list[a:b]
ListSlice(list, a, b) ==
    LET hi == Min(b, ListLen(list)) IN
    [i \in 0..(hi - a - 1) |-> list[a + i]]

RECURSIVE SumTo(_, _)
SumTo(sizes, n) == IF n = 0 THEN 0 ELSE SumTo(sizes, n - 1) + sizes[n - 1]

SumList(sizes) == SumTo(sizes, ListLen(sizes))

\* torch.split(t, sizes, dim=1): section i holds sizes[i] rows, in order.
SplitOK(t, sizes) == SumList(sizes) = Len(t.rows)

Split(t, sizes) ==
    [i \in DOMAIN sizes |->
        [b |-> t.b, d |-> t.d,
         rows |-> SubSeq(t.rows, SumTo(sizes, i) + 1, SumTo(sizes, i) + sizes[i])]]

\* ------------------------------------------------------------------- graph
\* Global index of the first node of level l: mesh nodes are numbered level by level.
Offset(N, l) == SumTo(N, l)

SameIndex(N, l, m) ==
    [j \in 1..m |-> <<Offset(N, l) + ((j - 1) % N[l]), Offset(N, l) + (j % N[l])>>]

UpIndex(N, l, m) ==
    [j \in 1..m |-> <<Offset(N, l) + ((j - 1) % N[l]),
                      Offset(N, l + 1) + ((j - 1) % N[l + 1])>>]

DownIndex(N, l, m) ==
    [j \in 1..m |-> <<Offset(N, l + 1) + ((j - 1) % N[l + 1]),
                      Offset(N, l) + ((j - 1) % N[l])>>]

G2MIndex(N) == [j \in 1..GridNodes |-> <<j - 1, (j - 1) % N[0]>>]

M2GIndex(N) == [j \in 1..GridNodes |-> <<(j - 1) % N[0], j - 1>>]

\* The static data of a graph: node counts N per level, nSame[l] same-level
\* edges, nUp up and nDown down edges between consecutive levels.  A feature
\* tensor is kept as its row count, an edge index as its list of
\* <<sender, receiver>> pairs.
MakeGraph(hier, N, nSame, nUp, nDown, st) ==
    LET L == ListLen(N) IN
    [hierarchical |-> hier,
     grid_static_features |-> GridNodes,
     g2m_features |-> GridNodes,
     g2m_edge_index |-> G2MIndex(N),
     m2g_features |-> GridNodes,
     m2g_edge_index |-> M2GIndex(N),
     mesh_static_features |-> N,
     m2m_features |-> nSame,
     m2m_edge_index |-> [l \in 0..(L - 1) |-> SameIndex(N, l, nSame[l])],
     mesh_up_features |-> [l \in 0..(L - 2) |-> nUp],
     mesh_up_edge_index |-> [l \in 0..(L - 2) |-> UpIndex(N, l, nUp)],
     mesh_down_features |-> [l \in 0..(L - 2) |-> nDown],
     mesh_down_edge_index |-> [l \in 0..(L - 2) |-> DownIndex(N, l, nDown)],
     step_diff_std |-> st.std,
     step_diff_mean |-> st.mean]

HierGraphs ==
    UNION {{MakeGraph(TRUE, N, N, u, dn, st) :
               N \in [0..(L - 1) -> NodeCounts], u \in EdgeCounts, dn \in EdgeCounts,
               st \in StepDiffStats} : L \in 2..MaxLevels}

FlatGraphs ==
    {MakeGraph(FALSE, N, [l \in 0..0 |-> m], 0, 0, st) :
        N \in [0..0 -> NodeCounts], m \in EdgeCounts, st \in StepDiffStats}

Models == {"graph_lam", "hi_lam", "hi_lam_parallel"}

IsHi(model) == model \in {"hi_lam", "hi_lam_parallel"}

\* ------------------------------------------------------ Interaction Nets
\* An InteractionNet instance: its family, the repetition and list position it
\* was built for, the edge index it was built on, and update_edges.
Net(fam, rep, idx, edge_index, upd) ==
    [fam |-> fam, rep |-> rep, idx |-> idx, index |-> edge_index, upd |-> upd,
     edge_chunk_sizes |-> NoList, aggr_chunk_sizes |-> NoList]

\* The forward pass of an Interaction Net needs one edge representation row per
\* edge of its index and one batch size.
NetOK(net, send, rec, edge) ==
    /\ send.b = rec.b /\ rec.b = edge.b
    /\ send.d = rec.d /\ rec.d = edge.d
    /\ Len(edge.rows) = Len(net.index)
    /\ net.edge_chunk_sizes # NoList => SumList(net.edge_chunk_sizes) = Len(edge.rows)
    /\ net.aggr_chunk_sizes # NoList => SumList(net.aggr_chunk_sizes) = Len(rec.rows)

\* Output of application number k: the receiver rows updated, and the edge rows
\* updated when update_edges is set.
NetNode(net, send, rec, edge, k) == Tensor(rec.b, Rows("n", k, Len(rec.rows)))

NetEdge(net, send, rec, edge, k) ==
    IF net.upd THEN Tensor(edge.b, Rows("e", k, Len(edge.rows))) ELSE edge

OpRec(net, phase, lvl, send, rec, edge) ==
    [net |-> net, phase |-> phase, lvl |-> lvl, send |-> send, rec |-> rec, edge |-> edge]

\* ------------------------------------------------------------ construction
NoSelf ==
    [N_grid |-> 0, N_mesh |-> 0, N_levels |-> 0, N_mesh_levels |-> NoList,
     edge_split_sections |-> NoList, processor |-> "none"]

NoState == [shape |-> <<0, 0, 0>>, val |-> 0]

\* The per-call variables before (and between) calls of predict_step.
FrameInit ==
    /\ prev_state = NoState
    /\ batch_size = 0
    /\ grid_rep = NoTensor
    /\ m2g_emb = NoTensor
    /\ mesh_rep = NoTensor
    /\ mesh_rep_levels = NoList
    /\ mesh_same_rep = NoList
    /\ mesh_up_rep = NoList
    /\ mesh_down_rep = NoList
    /\ mesh_edge_rep = NoTensor
    /\ level_l = 0
    /\ layer = 0
    /\ ops = <<>>
    /\ phaseLog = <<>>
    /\ procIn = NoLists
    /\ procOut = NoLists
    /\ repStart = NoList
    /\ net_output = NoState
    /\ result = NoState

\* The training script is not running.
NoArgs == [eval |-> "none", model |-> "graph_lam", dataset |-> "titan", load |-> FALSE]

ScriptOff ==
    /\ args = NoArgs
    /\ spc = "off"
    /\ eval_loader = "unbound"
    /\ trainerLog = <<>>

\* The datasets package is not being imported.
NoLookup == [name |-> "", asked |-> "", kls |-> "", config_file |-> "", outcome |-> "none"]

RegistryOff ==
    /\ importOutcome = [smeagol |-> "ok", titan |-> "ok"]
    /\ registry = {}
    /\ warningLog = <<>>
    /\ rpc = "off"
    /\ lookup = NoLookup

NoCall == [args |-> NoState, out |-> <<>>]

EnvOff == ScriptOff /\ RegistryOff /\ firstCall = NoCall

\* GraphLAM.__init__ reads self.hierachical, a name no line of models.py
\* assigns; it exists only if the base class ARModel or a name of graph_ldict
\* (set as attributes by BaseGraphModel.__init__) provides it.  The other
\* classes do not read it.
OtherAttrs == IF hp.model = "graph_lam" THEN {{}, {"hierachical"}} ELSE {{}}

\* A model class has been chosen (MODELS[graph.model]) with its hyper-parameters
\* and the graph load_graph returns; the constructor has not run yet.
Init ==
    /\ hp \in {h \in [model : Models, processor_layers : 0..MaxLayers] :
                  h.model = "graph_lam" => h.processor_layers >= 1}
    /\ graph \in IF IsHi(hp.model) THEN HierGraphs ELSE HierGraphs \cup FlatGraphs
    /\ self = NoSelf
    /\ other_attrs \in OtherAttrs
    /\ pc = "new"
    /\ FrameInit
    /\ EnvOff

\* BaseHiGraphModel.get_num_mesh / GraphLAM.get_num_mesh: total mesh node count.
GetNumMesh == SumList(graph.mesh_static_features)

\* Mutant of TotalEdgeIndexList: the down edge indices come before the up ones.
TotalEdgeIndexListDownFirst ==
    ListPlus(ListPlus(graph.m2m_edge_index, graph.mesh_down_edge_index),
             graph.mesh_up_edge_index)

\* HiLAMParallel.__init__: total_edge_index_list and its section sizes.
TotalEdgeIndexList ==
    ListPlus(ListPlus(graph.m2m_edge_index, graph.mesh_up_edge_index),
             graph.mesh_down_edge_index)

\* Mutant of EdgeSplitSections: the section sizes are taken with the down
\* edges before the up edges.
EdgeSplitSectionsDownFirst ==
    LET list == ListPlus(ListPlus(graph.m2m_edge_index, graph.mesh_down_edge_index),
                         graph.mesh_up_edge_index)
    IN [i \in DOMAIN list |-> Len(list[i])]

EdgeSplitSections ==
    [i \in DOMAIN TotalEdgeIndexList |-> Len(TotalEdgeIndexList[i])]

TotalEdgeIndex == 
    LET RECURSIVE Join(_)
        Join(n) == IF n = 0 THEN <<>> ELSE Join(n - 1) \o TotalEdgeIndexList[n - 1]
    IN Join(ListLen(TotalEdgeIndexList))

\* HiLAMParallel.__init__: the processor is the identity for processor_layers = 0.
ParallelProcessor == IF hp.processor_layers = 0 THEN "identity" ELSE "sequential"

\* BaseHiGraphModel.__init__ indexes the edge feature lists once per level of
\* mesh_static_features (and at 0 for the feature dimensions): a list that is
\* too short raises IndexError.
HiListsOK ==
    LET L == ListLen(graph.mesh_static_features)
    IN /\ L >= 1
       /\ \A l \in 0..(L - 1) :
             /\ l \in DOMAIN graph.m2m_features
             /\ l < L - 1 => /\ l \in DOMAIN graph.mesh_up_features
                             /\ l \in DOMAIN graph.mesh_down_features
       /\ 0 \in DOMAIN graph.mesh_up_features
       /\ 0 \in DOMAIN graph.mesh_down_features

\* The constructor chain runs through; GraphLAM asserts a flat graph and then
\* prints self.hierachical.
ConstructOK ==
    IF hp.model = "graph_lam"
    THEN ~graph.hierarchical /\ "hierachical" \in other_attrs
    ELSE HiListsOK

\* The exception a failed constructor raises.
CtorError ==
    IF hp.model = "graph_lam"
    THEN IF graph.hierarchical THEN "AssertionError" ELSE "AttributeError"
    ELSE "IndexError"

Constructed ==
    [N_grid |-> graph.grid_static_features,
     N_mesh |-> GetNumMesh,
     N_levels |-> IF IsHi(hp.model) THEN ListLen(graph.mesh_static_features) ELSE 0,
     N_mesh_levels |-> IF IsHi(hp.model) THEN graph.mesh_static_features ELSE NoList,
     edge_split_sections |->
         IF hp.model = "hi_lam_parallel" THEN EdgeSplitSections ELSE NoList,
     processor |->
         IF hp.model = "hi_lam_parallel" THEN ParallelProcessor
         ELSE IF hp.model = "graph_lam" THEN "sequential" ELSE "none"]

Construct ==
    /\ pc = "new"
    /\ IF ConstructOK
       THEN self' = Constructed /\ pc' = "idle"
       ELSE self' = self /\ pc' = "ctor_failed"
    /\ UNCHANGED <<hp, graph, other_attrs, frameVars, envVars>>

\* The nets the constructors build.
G2MGnn == Net("g2m", 0, 0, graph.g2m_edge_index, FALSE)

M2GGnn == Net("m2g", 0, 0, graph.m2g_edge_index, FALSE)

\* Mutant of MeshInitGnns: the init nets are built on the down edge indices.
MeshInitGnnsOverDown == [i \in DOMAIN graph.mesh_down_edge_index |->
                            Net("init", 0, i, graph.mesh_down_edge_index[i], TRUE)]

MeshInitGnns == [i \in DOMAIN graph.mesh_up_edge_index |->
                    Net("init", 0, i, graph.mesh_up_edge_index[i], TRUE)]

MeshReadGnns == [i \in DOMAIN graph.mesh_down_edge_index |->
                    Net("read", 0, i, graph.mesh_down_edge_index[i], FALSE)]

\* Mutant of Fail: the error is swallowed and the call returns.
FailSwallowed == pc' = "done" /\ UNCHANGED <<cfgVars, frameVars>>

\* A runtime error propagates out of predict_step.
Fail == pc' = "error" /\ UNCHANGED <<cfgVars, frameVars>>

\* ------------------------------------------------------------ predict_step
\* Mutant of GridDim: the state dimension is counted once.
GridDimSingle ==
    GridStateDim + AuxDims.grid_static + AuxDims.forcing + AuxDims.batch_static

\* grid_dim = 2*grid_state_dim + grid_static + forcing + batch_static
GridDim == 2 * GridStateDim + AuxDims.grid_static + AuxDims.forcing + AuxDims.batch_static

\* BaseHiGraphModel.embedd_mesh_nodes / GraphLAM.embedd_mesh_nodes
EmbeddMeshNodes == Embed("mesh_emb", 0, graph.mesh_static_features[0])

\* predict_step up to the call of process_step: the grid features are joined
\* and embedded, and the grid is encoded onto the mesh by g2m_gnn.
PredictStart(B, f, v) ==
    /\ pc = "idle"
    /\ LET grid_features_dim == 2 * f + AuxDims.batch_static + AuxDims.forcing
                                   + AuxDims.grid_static
           grid_emb == Tensor(B, Rows("grid_emb", 0, self.N_grid))
           g2m_emb == Embed("g2m_emb", 0, graph.g2m_features)
           mesh_emb_expanded == ExpandToBatch(EmbeddMeshNodes, B)
           g2m_emb_expanded == ExpandToBatch(g2m_emb, B)
       IN IF grid_features_dim # GridDim
             \/ ~NetOK(G2MGnn, grid_emb, mesh_emb_expanded, g2m_emb_expanded)
          THEN Fail
          ELSE /\ prev_state' = [shape |-> <<B, self.N_grid, f>>, val |-> v]
               /\ batch_size' = B
               /\ mesh_rep' = NetNode(G2MGnn, grid_emb, mesh_emb_expanded,
                                      g2m_emb_expanded, 1)
               /\ ops' = <<OpRec(G2MGnn, "ENCODE", 0, grid_emb, mesh_emb_expanded,
                                 g2m_emb_expanded)>>
               /\ grid_rep' = Tensor(B, Rows("grid_rep", 0, self.N_grid))
               /\ m2g_emb' = Embed("m2g_emb", 0, graph.m2g_features)
               /\ phaseLog' = <<>>
               /\ pc' = "process"
               /\ UNCHANGED <<cfgVars, mesh_rep_levels, mesh_same_rep, mesh_up_rep,
                              mesh_down_rep, mesh_edge_rep, level_l, layer,
                              procIn, procOut, repStart, net_output, result>>

\* ------------------------------------------- BaseHiGraphModel.process_step
\* zip(a, b) stops at the shorter list.
ZipLen(a, b) == Min(ListLen(a), ListLen(b))

\* Mutant of HiEmbed: the embedded up-edge list of an earlier call is kept
\* when there is one.
HiEmbedCached ==
    /\ pc = "process"
    /\ IsHi(hp.model)
    /\ LET B == mesh_rep.b
           nUpper == Min(self.N_levels - 1, ListLen(graph.mesh_static_features) - 1)
       IN /\ mesh_rep_levels' =
                [l \in 0..nUpper |->
                    IF l = 0 THEN mesh_rep
                    ELSE ExpandToBatch(
                            Embed("mesh_emb", l, graph.mesh_static_features[l]), B)]
          /\ mesh_same_rep' =
                [l \in 0..(Min(self.N_levels, ListLen(graph.m2m_features)) - 1) |->
                    ExpandToBatch(Embed("same_emb", l, graph.m2m_features[l]), B)]
          /\ mesh_up_rep' =
                IF mesh_up_rep # NoList THEN mesh_up_rep
                ELSE [l \in 0..(Min(self.N_levels - 1,
                                    ListLen(graph.mesh_up_features)) - 1) |->
                        ExpandToBatch(Embed("up_emb", l, graph.mesh_up_features[l]), B)]
          /\ mesh_down_rep' =
                [l \in 0..(Min(self.N_levels - 1, ListLen(graph.mesh_down_features)) - 1) |->
                    ExpandToBatch(Embed("down_emb", l, graph.mesh_down_features[l]), B)]
    /\ level_l' = 1
    /\ phaseLog' = Append(phaseLog, "INIT")
    /\ pc' = IF ListLen(MeshInitGnns) >= 1 THEN "init" ELSE "processor"
    /\ UNCHANGED <<cfgVars, prev_state, batch_size, grid_rep, m2g_emb, mesh_rep,
                   mesh_edge_rep, layer, ops, procIn, procOut, repStart, net_output, result>>

\* Embedding of the remaining mesh nodes and of the edges, then the start of
\* the init loop.
HiEmbed ==
    /\ pc = "process"
    /\ IsHi(hp.model)
    /\ LET B == mesh_rep.b
           nUpper == Min(self.N_levels - 1, ListLen(graph.mesh_static_features) - 1)
       IN /\ mesh_rep_levels' =
                [l \in 0..nUpper |->
                    IF l = 0 THEN mesh_rep
                    ELSE ExpandToBatch(
                            Embed("mesh_emb", l, graph.mesh_static_features[l]), B)]
          /\ mesh_same_rep' =
                [l \in 0..(Min(self.N_levels, ListLen(graph.m2m_features)) - 1) |->
                    ExpandToBatch(Embed("same_emb", l, graph.m2m_features[l]), B)]
          /\ mesh_up_rep' =
                [l \in 0..(Min(self.N_levels - 1, ListLen(graph.mesh_up_features)) - 1) |->
                    ExpandToBatch(Embed("up_emb", l, graph.mesh_up_features[l]), B)]
          /\ mesh_down_rep' =
                [l \in 0..(Min(self.N_levels - 1, ListLen(graph.mesh_down_features)) - 1) |->
                    ExpandToBatch(Embed("down_emb", l, graph.mesh_down_features[l]), B)]
    /\ level_l' = 1
    /\ phaseLog' = Append(phaseLog, "INIT")
    /\ pc' = IF ListLen(MeshInitGnns) >= 1 THEN "init" ELSE "processor"
    /\ UNCHANGED <<cfgVars, prev_state, batch_size, grid_rep, m2g_emb, mesh_rep,
                   mesh_edge_rep, layer, ops, procIn, procOut, repStart, net_output, result>>

\* One iteration of the init loop: level_l - 1 sends to level_l over the up edges.
InitStep ==
    /\ pc = "init"
    /\ IF ~({level_l - 1, level_l} \subseteq DOMAIN mesh_rep_levels
            /\ level_l - 1 \in DOMAIN mesh_up_rep)
       THEN Fail
       ELSE LET gnn == MeshInitGnns[level_l - 1]
                send_node_rep == mesh_rep_levels[level_l - 1]
                rec_node_rep == mesh_rep_levels[level_l]
                edge_rep == mesh_up_rep[level_l - 1]
                k == Len(ops) + 1
            IN IF ~NetOK(gnn, send_node_rep, rec_node_rep, edge_rep)
               THEN Fail
               ELSE /\ mesh_rep_levels' =
                         [mesh_rep_levels EXCEPT ![level_l] =
                             NetNode(gnn, send_node_rep, rec_node_rep, edge_rep, k)]
                    /\ mesh_up_rep' =
                         [mesh_up_rep EXCEPT ![level_l - 1] =
                             NetEdge(gnn, send_node_rep, rec_node_rep, edge_rep, k)]
                    /\ ops' = Append(ops, OpRec(gnn, "INIT", level_l, send_node_rep,
                                                rec_node_rep, edge_rep))
                    /\ level_l' = level_l + 1
                    /\ pc' = IF level_l < ListLen(MeshInitGnns) THEN "init"
                             ELSE "processor"
                    /\ UNCHANGED <<cfgVars, prev_state, batch_size, grid_rep, m2g_emb,
                                   mesh_rep, mesh_same_rep, mesh_down_rep, mesh_edge_rep,
                                   layer, phaseLog, procIn, procOut, repStart,
                                   net_output, result>>

\* Mutant of ProcessorEnter: the call of hi_processor_step is left out and
\* the read-out follows the init loop directly.
ProcessorEnterSkipped ==
    /\ pc = "processor"
    /\ procIn' = [nodes |-> mesh_rep_levels, same |-> mesh_same_rep,
                  up |-> mesh_up_rep, down |-> mesh_down_rep]
    /\ procOut' = [nodes |-> mesh_rep_levels, same |-> mesh_same_rep,
                   up |-> mesh_up_rep, down |-> mesh_down_rep]
    /\ layer' = 0
    /\ pc' = "proc_return"
    /\ UNCHANGED <<cfgVars, prev_state, batch_size, grid_rep, m2g_emb, mesh_rep,
                   mesh_rep_levels, mesh_same_rep, mesh_up_rep, mesh_down_rep,
                   mesh_edge_rep, level_l, ops, phaseLog, repStart, net_output, result>>

\* process_step calls hi_processor_step with the four lists.
ProcessorEnter ==
    /\ pc = "processor"
    /\ procIn' = [nodes |-> mesh_rep_levels, same |-> mesh_same_rep,
                  up |-> mesh_up_rep, down |-> mesh_down_rep]
    /\ phaseLog' = Append(phaseLog, "PROCESS")
    /\ layer' = 0
    /\ pc' = IF hp.model = "hi_lam_parallel" THEN "par_join" ELSE "seq_loop"
    /\ UNCHANGED <<cfgVars, prev_state, batch_size, grid_rep, m2g_emb, mesh_rep,
                   mesh_rep_levels, mesh_same_rep, mesh_up_rep, mesh_down_rep,
                   mesh_edge_rep, level_l, ops, procOut, repStart, net_output, result>>

\* ------------------------------------------- HiLAMParallel.hi_processor_step
\* The processor nets of HiLAMParallel: one net over the joined edge index,
\* chunked per edge section and per node level.
ParNet(i) ==
    [Net("par", i, 0, TotalEdgeIndex, TRUE) EXCEPT
        !.edge_chunk_sizes = self.edge_split_sections,
        !.aggr_chunk_sizes = self.N_mesh_levels]

\* Mutant of EdgeRepList: the down edges are joined before the up edges.
EdgeRepListDownFirst(same, up, down) == ListPlus(ListPlus(same, down), up)

\* The order in which the edge representation lists are joined.
EdgeRepList(same, up, down) == ListPlus(ListPlus(same, up), down)

\* Mutant of JoinNodes: the levels are joined from the top level down.
JoinNodesReversed(levels) ==
    Cat([i \in DOMAIN levels |-> levels[ListLen(levels) - 1 - i]])

\* The order in which the node representations are joined.
JoinNodes(levels) == Cat(levels)

\* Join all node and all edge representations to single tensors.
ParJoin ==
    /\ pc = "par_join"
    /\ LET edges == EdgeRepList(mesh_same_rep, mesh_up_rep, mesh_down_rep)
       IN IF ~CatOK(mesh_rep_levels) \/ ~CatOK(edges)
          THEN Fail
          ELSE /\ mesh_rep' = JoinNodes(mesh_rep_levels)
               /\ mesh_edge_rep' = Cat(edges)
               /\ pc' = "par_call"
               /\ UNCHANGED <<cfgVars, prev_state, batch_size, grid_rep, m2g_emb,
                              mesh_rep_levels, mesh_same_rep, mesh_up_rep, mesh_down_rep,
                              level_l, layer, ops, phaseLog, procIn, procOut, repStart,
                              net_output, result>>

\* processor_layers = 0: self.processor is lambda x, edge_attr: (x, edge_attr).
IdentityProcessor(x, edge_attr) == <<x, edge_attr>>

ParIdentity ==
    /\ pc = "par_call"
    /\ self.processor = "identity"
    /\ mesh_rep' = IdentityProcessor(mesh_rep, mesh_edge_rep)[1]
    /\ mesh_edge_rep' = IdentityProcessor(mesh_rep, mesh_edge_rep)[2]
    /\ pc' = "par_split"
    /\ UNCHANGED <<cfgVars, prev_state, batch_size, grid_rep, m2g_emb, mesh_rep_levels,
                   mesh_same_rep, mesh_up_rep, mesh_down_rep, level_l, layer, ops,
                   phaseLog, procIn, procOut, repStart, net_output, result>>

\* One layer of the pyg Sequential: mesh_rep, mesh_rep, edge_rep -> mesh_rep, edge_rep.
ParLayer ==
    /\ pc = "par_call"
    /\ self.processor = "sequential"
    /\ layer < hp.processor_layers
    /\ LET net == ParNet(layer)
           k == Len(ops) + 1
       IN IF ~NetOK(net, mesh_rep, mesh_rep, mesh_edge_rep)
          THEN Fail
          ELSE /\ mesh_rep' = NetNode(net, mesh_rep, mesh_rep, mesh_edge_rep, k)
               /\ mesh_edge_rep' = NetEdge(net, mesh_rep, mesh_rep, mesh_edge_rep, k)
               /\ ops' = Append(ops, OpRec(net, "PROCESS", 0, mesh_rep, mesh_rep,
                                           mesh_edge_rep))
               /\ layer' = layer + 1
               /\ pc' = IF layer + 1 < hp.processor_layers THEN "par_call"
                        ELSE "par_split"
               /\ UNCHANGED <<cfgVars, prev_state, batch_size, grid_rep, m2g_emb,
                              mesh_rep_levels, mesh_same_rep, mesh_up_rep, mesh_down_rep,
                              level_l, phaseLog, procIn, procOut, repStart,
                              net_output, result>>

\* Mutant of SplitEdges: the up slice runs one section too far.
SplitEdgesShifted(t) ==
    LET mesh_edge_rep_sections == Split(t, self.edge_split_sections)
        L == self.N_levels
    IN [same |-> ListSlice(mesh_edge_rep_sections, 0, L),
        up |-> ListSlice(mesh_edge_rep_sections, L, L + L),
        down |-> ListSlice(mesh_edge_rep_sections, L + (L - 1),
                           ListLen(mesh_edge_rep_sections))]

\* The per-level and per-family lists split back out of the joined tensors.
SplitNodes(t) == Split(t, self.N_mesh_levels)

SplitEdges(t) ==
    LET mesh_edge_rep_sections == Split(t, self.edge_split_sections)
        L == self.N_levels
    IN [same |-> ListSlice(mesh_edge_rep_sections, 0, L),
        up |-> ListSlice(mesh_edge_rep_sections, L, L + (L - 1)),
        down |-> ListSlice(mesh_edge_rep_sections, L + (L - 1),
                           ListLen(mesh_edge_rep_sections))]

\* Split up again and return the four lists.
ParSplit ==
    /\ pc = "par_split"
    /\ IF ~SplitOK(mesh_rep, self.N_mesh_levels)
          \/ ~SplitOK(mesh_edge_rep, self.edge_split_sections)
       THEN Fail
       ELSE /\ procOut' = [nodes |-> SplitNodes(mesh_rep),
                           same |-> SplitEdges(mesh_edge_rep).same,
                           up |-> SplitEdges(mesh_edge_rep).up,
                           down |-> SplitEdges(mesh_edge_rep).down]
            /\ pc' = "proc_return"
            /\ UNCHANGED <<cfgVars, prev_state, batch_size, grid_rep, m2g_emb, mesh_rep,
                           mesh_rep_levels, mesh_same_rep, mesh_up_rep, mesh_down_rep,
                           mesh_edge_rep, level_l, layer, ops, phaseLog, procIn,
                           repStart, net_output, result>>

\* --------------------------------------------------- HiLAM.hi_processor_step
\* The nets of repetition rep (HiLAM.__init__, make_same_gnns, make_up_gnns,
\* make_down_gnns): one per edge index of the family.
\* Mutant of MeshDownGnns: one list of down nets serves every repetition.
MeshDownGnnsShared(rep) == [i \in DOMAIN graph.mesh_down_edge_index |->
                              Net("down", 0, i, graph.mesh_down_edge_index[i], TRUE)]

MeshDownGnns(rep) == [i \in DOMAIN graph.mesh_down_edge_index |->
                        Net("down", rep, i, graph.mesh_down_edge_index[i], TRUE)]

\* Mutant of MeshDownSameGnns: the list is built from the top level down.
MeshDownSameGnnsReversed(rep) ==
    [i \in DOMAIN graph.m2m_edge_index |->
        Net("down_same", rep, ListLen(graph.m2m_edge_index) - 1 - i,
            graph.m2m_edge_index[ListLen(graph.m2m_edge_index) - 1 - i], TRUE)]

MeshDownSameGnns(rep) == [i \in DOMAIN graph.m2m_edge_index |->
                            Net("down_same", rep, i, graph.m2m_edge_index[i], TRUE)]

\* Mutant of MeshUpGnns: the list is built from the top level down.
MeshUpGnnsReversed(rep) ==
    [i \in DOMAIN graph.mesh_up_edge_index |->
        Net("up", rep, ListLen(graph.mesh_up_edge_index) - 1 - i,
            graph.mesh_up_edge_index[ListLen(graph.mesh_up_edge_index) - 1 - i], TRUE)]

MeshUpGnns(rep) == [i \in DOMAIN graph.mesh_up_edge_index |->
                      Net("up", rep, i, graph.mesh_up_edge_index[i], TRUE)]

MeshUpSameGnns(rep) == [i \in DOMAIN graph.m2m_edge_index |->
                          Net("up_same", rep, i, graph.m2m_edge_index[i], TRUE)]

\* Mutant of DownLoopLen: the level loop stops one level early.
DownLoopLenShort(rep) ==
    Min(self.N_levels - 1,
        Min(ListLen(MeshDownGnns(rep)), ListLen(MeshDownSameGnns(rep)) - 1)) - 1

\* Mutant of UpLoopLen: the level loop stops one level early.
UpLoopLenShort(rep) ==
    Min(ListLen(MeshUpGnns(rep)), ListLen(MeshUpSameGnns(rep)) - 1) - 1

\* Number of iterations of the level loop of mesh_down_step (a zip of three).
DownLoopLen(rep) ==
    Min(self.N_levels - 1, Min(ListLen(MeshDownGnns(rep)), ListLen(MeshDownSameGnns(rep)) - 1))

\* Number of iterations of the level loop of mesh_up_step (a zip of two).
UpLoopLen(rep) == Min(ListLen(MeshUpGnns(rep)), ListLen(MeshUpSameGnns(rep)) - 1)

\* Mutant of DownTop: the loop over the repetitions runs once more than there
\* are lists of nets.
DownTopOnceMore ==
    /\ pc = "seq_loop"
    /\ layer <= hp.processor_layers
    /\ LET same_gnns == MeshDownSameGnns(layer)
           top == ListLen(mesh_rep_levels) - 1
           etop == ListLen(mesh_same_rep) - 1
           gnn == same_gnns[ListLen(same_gnns) - 1]
           k == Len(ops) + 1
       IN IF top < 0 \/ etop < 0
             \/ ~NetOK(gnn, mesh_rep_levels[top], mesh_rep_levels[top], mesh_same_rep[etop])
          THEN Fail
          ELSE /\ mesh_rep_levels' =
                    [mesh_rep_levels EXCEPT ![top] =
                        NetNode(gnn, mesh_rep_levels[top], mesh_rep_levels[top],
                                mesh_same_rep[etop], k)]
               /\ mesh_same_rep' =
                    [mesh_same_rep EXCEPT ![etop] =
                        NetEdge(gnn, mesh_rep_levels[top], mesh_rep_levels[top],
                                mesh_same_rep[etop], k)]
               /\ ops' = Append(ops, OpRec(gnn, "PROCESS", top, mesh_rep_levels[top],
                                           mesh_rep_levels[top], mesh_same_rep[etop]))
               /\ repStart' = mesh_rep_levels
               /\ level_l' = self.N_levels - 2
               /\ pc' = IF DownLoopLen(layer) >= 1 THEN "down_loop" ELSE "up_bottom"
               /\ UNCHANGED <<cfgVars, prev_state, batch_size, grid_rep, m2g_emb,
                              mesh_rep, mesh_up_rep, mesh_down_rep, mesh_edge_rep, layer,
                              phaseLog, procIn, procOut, net_output, result>>

\* mesh_down_step, first statement: same-level processing on the top level.
DownTop ==
    /\ pc = "seq_loop"
    /\ layer < hp.processor_layers
    /\ LET same_gnns == MeshDownSameGnns(layer)
           top == ListLen(mesh_rep_levels) - 1
           etop == ListLen(mesh_same_rep) - 1
           gnn == same_gnns[ListLen(same_gnns) - 1]
           k == Len(ops) + 1
       IN IF top < 0 \/ etop < 0
             \/ ~NetOK(gnn, mesh_rep_levels[top], mesh_rep_levels[top], mesh_same_rep[etop])
          THEN Fail
          ELSE /\ mesh_rep_levels' =
                    [mesh_rep_levels EXCEPT ![top] =
                        NetNode(gnn, mesh_rep_levels[top], mesh_rep_levels[top],
                                mesh_same_rep[etop], k)]
               /\ mesh_same_rep' =
                    [mesh_same_rep EXCEPT ![etop] =
                        NetEdge(gnn, mesh_rep_levels[top], mesh_rep_levels[top],
                                mesh_same_rep[etop], k)]
               /\ ops' = Append(ops, OpRec(gnn, "PROCESS", top, mesh_rep_levels[top],
                                           mesh_rep_levels[top], mesh_same_rep[etop]))
               /\ repStart' = mesh_rep_levels
               /\ level_l' = self.N_levels - 2
               /\ pc' = IF DownLoopLen(layer) >= 1 THEN "down_loop" ELSE "up_bottom"
               /\ UNCHANGED <<cfgVars, prev_state, batch_size, grid_rep, m2g_emb,
                              mesh_rep, mesh_up_rep, mesh_down_rep, mesh_edge_rep, layer,
                              phaseLog, procIn, procOut, net_output, result>>

\* mesh_down_step, one iteration of the level loop: the down net from
\* level_l + 1 into level_l, then the same-level net of level_l.
DownStep ==
    /\ pc = "down_loop"
    /\ LET t == (self.N_levels - 2) - level_l
           down_gnns == MeshDownGnns(layer)
           same_gnns == MeshDownSameGnns(layer)
           down_gnn == down_gnns[ListLen(down_gnns) - 1 - t]
           same_gnn == same_gnns[ListLen(same_gnns) - 2 - t]
           k == Len(ops) + 1
       IN IF ~({level_l, level_l + 1} \subseteq DOMAIN mesh_rep_levels
               /\ level_l \in DOMAIN mesh_down_rep /\ level_l \in DOMAIN mesh_same_rep)
          THEN Fail
          ELSE LET send_node_rep == mesh_rep_levels[level_l + 1]
                   rec_node_rep == mesh_rep_levels[level_l]
                   down_edge_rep == mesh_down_rep[level_l]
                   same_edge_rep == mesh_same_rep[level_l]
                   new_node_rep == NetNode(down_gnn, send_node_rep, rec_node_rep,
                                           down_edge_rep, k)
               IN IF ~NetOK(down_gnn, send_node_rep, rec_node_rep, down_edge_rep)
                     \/ ~NetOK(same_gnn, new_node_rep, new_node_rep, same_edge_rep)
                  THEN Fail
                  ELSE /\ mesh_down_rep' =
                            [mesh_down_rep EXCEPT ![level_l] =
                                NetEdge(down_gnn, send_node_rep, rec_node_rep,
                                        down_edge_rep, k)]
                       /\ mesh_rep_levels' =
                            [mesh_rep_levels EXCEPT ![level_l] =
                                NetNode(same_gnn, new_node_rep, new_node_rep,
                                        same_edge_rep, k + 1)]
                       /\ mesh_same_rep' =
                            [mesh_same_rep EXCEPT ![level_l] =
                                NetEdge(same_gnn, new_node_rep, new_node_rep,
                                        same_edge_rep, k + 1)]
                       /\ ops' = ops \o
                            <<OpRec(down_gnn, "PROCESS", level_l, send_node_rep,
                                    rec_node_rep, down_edge_rep),
                              OpRec(same_gnn, "PROCESS", level_l, new_node_rep,
                                    new_node_rep, same_edge_rep)>>
                       /\ level_l' = level_l - 1
                       /\ pc' = IF t + 1 < DownLoopLen(layer) THEN "down_loop"
                                ELSE "up_bottom"
                       /\ UNCHANGED <<cfgVars, prev_state, batch_size, grid_rep, m2g_emb,
                                      mesh_rep, mesh_up_rep, mesh_edge_rep, layer,
                                      phaseLog, procIn, procOut, repStart,
                                      net_output, result>>

\* mesh_up_step, first statement: same-level processing on level 0.
UpBottom ==
    /\ pc = "up_bottom"
    /\ LET gnn == MeshUpSameGnns(layer)[0]
           k == Len(ops) + 1
       IN IF ~(0 \in DOMAIN mesh_rep_levels /\ 0 \in DOMAIN mesh_same_rep)
             \/ ~NetOK(gnn, mesh_rep_levels[0], mesh_rep_levels[0], mesh_same_rep[0])
          THEN Fail
          ELSE /\ mesh_rep_levels' =
                    [mesh_rep_levels EXCEPT ![0] =
                        NetNode(gnn, mesh_rep_levels[0], mesh_rep_levels[0],
                                mesh_same_rep[0], k)]
               /\ mesh_same_rep' =
                    [mesh_same_rep EXCEPT ![0] =
                        NetEdge(gnn, mesh_rep_levels[0], mesh_rep_levels[0],
                                mesh_same_rep[0], k)]
               /\ ops' = Append(ops, OpRec(gnn, "PROCESS", 0, mesh_rep_levels[0],
                                           mesh_rep_levels[0], mesh_same_rep[0]))
               /\ level_l' = 1
               /\ layer' = IF UpLoopLen(layer) >= 1 THEN layer ELSE layer + 1
               /\ pc' = IF UpLoopLen(layer) >= 1 THEN "up_loop" ELSE "seq_loop"
               /\ UNCHANGED <<cfgVars, prev_state, batch_size, grid_rep, m2g_emb,
                              mesh_rep, mesh_up_rep, mesh_down_rep, mesh_edge_rep,
                              phaseLog, procIn, procOut, repStart, net_output, result>>

\* mesh_up_step, one iteration of the level loop: the up net from level_l - 1
\* into level_l, then the same-level net of level_l.
UpStep ==
    /\ pc = "up_loop"
    /\ LET up_gnn == MeshUpGnns(layer)[level_l - 1]
           same_gnn == MeshUpSameGnns(layer)[level_l]
           k == Len(ops) + 1
       IN IF ~({level_l - 1, level_l} \subseteq DOMAIN mesh_rep_levels
               /\ level_l - 1 \in DOMAIN mesh_up_rep /\ level_l \in DOMAIN mesh_same_rep)
          THEN Fail
          ELSE LET send_node_rep == mesh_rep_levels[level_l - 1]
                   rec_node_rep == mesh_rep_levels[level_l]
                   up_edge_rep == mesh_up_rep[level_l - 1]
                   same_edge_rep == mesh_same_rep[level_l]
                   new_node_rep == NetNode(up_gnn, send_node_rep, rec_node_rep,
                                           up_edge_rep, k)
               IN IF ~NetOK(up_gnn, send_node_rep, rec_node_rep, up_edge_rep)
                     \/ ~NetOK(same_gnn, new_node_rep, new_node_rep, same_edge_rep)
                  THEN Fail
                  ELSE /\ mesh_up_rep' =
                            [mesh_up_rep EXCEPT ![level_l - 1] =
                                NetEdge(up_gnn, send_node_rep, rec_node_rep,
                                        up_edge_rep, k)]
                       /\ mesh_rep_levels' =
                            [mesh_rep_levels EXCEPT ![level_l] =
                                NetNode(same_gnn, new_node_rep, new_node_rep,
                                        same_edge_rep, k + 1)]
                       /\ mesh_same_rep' =
                            [mesh_same_rep EXCEPT ![level_l] =
                                NetEdge(same_gnn, new_node_rep, new_node_rep,
                                        same_edge_rep, k + 1)]
                       /\ ops' = ops \o
                            <<OpRec(up_gnn, "PROCESS", level_l, send_node_rep,
                                    rec_node_rep, up_edge_rep),
                              OpRec(same_gnn, "PROCESS", level_l, new_node_rep,
                                    new_node_rep, same_edge_rep)>>
                       /\ level_l' = level_l + 1
                       /\ layer' = IF level_l < UpLoopLen(layer) THEN layer ELSE layer + 1
                       /\ pc' = IF level_l < UpLoopLen(layer) THEN "up_loop"
                                ELSE "seq_loop"
                       /\ UNCHANGED <<cfgVars, prev_state, batch_size, grid_rep, m2g_emb,
                                      mesh_rep, mesh_down_rep, mesh_edge_rep, phaseLog,
                                      procIn, procOut, repStart, net_output, result>>

\* The repetition loop is exhausted: the four lists are returned.
SeqReturn ==
    /\ pc = "seq_loop"
    /\ layer >= hp.processor_layers
    /\ procOut' = [nodes |-> mesh_rep_levels, same |-> mesh_same_rep,
                   up |-> mesh_up_rep, down |-> mesh_down_rep]
    /\ pc' = "proc_return"
    /\ UNCHANGED <<cfgVars, prev_state, batch_size, grid_rep, m2g_emb, mesh_rep,
                   mesh_rep_levels, mesh_same_rep, mesh_up_rep, mesh_down_rep,
                   mesh_edge_rep, level_l, layer, ops, phaseLog, procIn, repStart,
                   net_output, result>>

\* ------------------------------- BaseHiGraphModel.process_step, continued
\* Mutant of ReadLoopLen: the read-out loop stops one level early.
ReadLoopLenShort == Min(self.N_levels - 1, ListLen(MeshReadGnns)) - 1

\* Number of iterations of the read-out loop (a zip of two).
ReadLoopLen == Min(self.N_levels - 1, ListLen(MeshReadGnns))

\* Mutant of ProcessorReturn: the third returned list is bound to
\* mesh_down_rep instead of the fourth.
ProcessorReturnUpEdges ==
    /\ pc = "proc_return"
    /\ mesh_rep_levels' = procOut.nodes
    /\ mesh_down_rep' = procOut.up
    /\ phaseLog' = Append(phaseLog, "READOUT")
    /\ level_l' = self.N_levels - 2
    /\ pc' = IF ReadLoopLen >= 1 THEN "readout" ELSE "process_return"
    /\ UNCHANGED <<cfgVars, prev_state, batch_size, grid_rep, m2g_emb, mesh_rep,
                   mesh_same_rep, mesh_up_rep, mesh_edge_rep, layer, ops, procIn,
                   procOut, repStart, net_output, result>>

\* mesh_rep_levels, _, _, mesh_down_rep = self.hi_processor_step(...)
ProcessorReturn ==
    /\ pc = "proc_return"
    /\ mesh_rep_levels' = procOut.nodes
    /\ mesh_down_rep' = procOut.down
    /\ phaseLog' = Append(phaseLog, "READOUT")
    /\ level_l' = self.N_levels - 2
    /\ pc' = IF ReadLoopLen >= 1 THEN "readout" ELSE "process_return"
    /\ UNCHANGED <<cfgVars, prev_state, batch_size, grid_rep, m2g_emb, mesh_rep,
                   mesh_same_rep, mesh_up_rep, mesh_edge_rep, layer, ops, procIn,
                   procOut, repStart, net_output, result>>

\* One iteration of the read-out loop: level_l + 1 sends to level_l over the
\* down edges; only the node representation is updated.
ReadStep ==
    /\ pc = "readout"
    /\ LET t == (self.N_levels - 2) - level_l
           gnn == MeshReadGnns[ListLen(MeshReadGnns) - 1 - t]
           k == Len(ops) + 1
       IN IF ~({level_l, level_l + 1} \subseteq DOMAIN mesh_rep_levels
               /\ level_l \in DOMAIN mesh_down_rep)
          THEN Fail
          ELSE LET send_node_rep == mesh_rep_levels[level_l + 1]
                   rec_node_rep == mesh_rep_levels[level_l]
                   edge_rep == mesh_down_rep[level_l]
               IN IF ~NetOK(gnn, send_node_rep, rec_node_rep, edge_rep)
                  THEN Fail
                  ELSE /\ mesh_rep_levels' =
                            [mesh_rep_levels EXCEPT ![level_l] =
                                NetNode(gnn, send_node_rep, rec_node_rep, edge_rep, k)]
                       /\ ops' = Append(ops, OpRec(gnn, "READOUT", level_l, send_node_rep,
                                                   rec_node_rep, edge_rep))
                       /\ level_l' = level_l - 1
                       /\ pc' = IF t + 1 < ReadLoopLen THEN "readout"
                                ELSE "process_return"
                       /\ UNCHANGED <<cfgVars, prev_state, batch_size, grid_rep, m2g_emb,
                                      mesh_rep, mesh_same_rep, mesh_up_rep, mesh_down_rep,
                                      mesh_edge_rep, layer, phaseLog, procIn, procOut,
                                      repStart, net_output, result>>

\* Mutant of BottomLevel: the top level is returned.
TopLevel(levels) == levels[ListLen(levels) - 1]

\* Return only the bottom level representation.
BottomLevel(levels) == levels[0]

ProcessReturn ==
    /\ pc = "process_return"
    /\ mesh_rep' = BottomLevel(mesh_rep_levels)
    /\ pc' = "decode"
    /\ UNCHANGED <<cfgVars, prev_state, batch_size, grid_rep, m2g_emb, mesh_rep_levels,
                   mesh_same_rep, mesh_up_rep, mesh_down_rep, mesh_edge_rep, level_l,
                   layer, ops, phaseLog, procIn, procOut, repStart, net_output, result>>

\* ---------------------------------------------------- GraphLAM.process_step
\* Mutant of ProcessorNets: the Sequential chains the nets last built first.
ProcessorNetsReversed == [i \in 0..(hp.processor_layers - 1) |->
                            Net("proc", hp.processor_layers - 1 - i, 0,
                                graph.m2m_edge_index[0], TRUE)]

ProcessorNets == [i \in 0..(hp.processor_layers - 1) |->
                    Net("proc", i, 0, graph.m2m_edge_index[0], TRUE)]

\* Embedd m2m here first.
FlatEmbed ==
    /\ pc = "process"
    /\ hp.model = "graph_lam"
    /\ mesh_edge_rep' = ExpandToBatch(Embed("m2m_emb", 0, graph.m2m_features[0]),
                                      mesh_rep.b)
    /\ layer' = 0
    /\ pc' = "flat_call"
    /\ UNCHANGED <<cfgVars, prev_state, batch_size, grid_rep, m2g_emb, mesh_rep,
                   mesh_rep_levels, mesh_same_rep, mesh_up_rep, mesh_down_rep, level_l,
                   ops, phaseLog, procIn, procOut, repStart, net_output, result>>

\* One layer of self.processor; after the last one process_step returns mesh_rep.
FlatLayer ==
    /\ pc = "flat_call"
    /\ layer < ListLen(ProcessorNets)
    /\ LET net == ProcessorNets[layer]
           k == Len(ops) + 1
       IN IF ~NetOK(net, mesh_rep, mesh_rep, mesh_edge_rep)
          THEN Fail
          ELSE /\ mesh_rep' = NetNode(net, mesh_rep, mesh_rep, mesh_edge_rep, k)
               /\ mesh_edge_rep' = NetEdge(net, mesh_rep, mesh_rep, mesh_edge_rep, k)
               /\ ops' = Append(ops, OpRec(net, "PROCESS", 0, mesh_rep, mesh_rep,
                                           mesh_edge_rep))
               /\ layer' = layer + 1
               /\ pc' = IF layer + 1 < ListLen(ProcessorNets) THEN "flat_call"
                        ELSE "decode"
               /\ UNCHANGED <<cfgVars, prev_state, batch_size, grid_rep, m2g_emb,
                              mesh_rep_levels, mesh_same_rep, mesh_up_rep, mesh_down_rep,
                              level_l, phaseLog, procIn, procOut, repStart,
                              net_output, result>>

\* ------------------------------------------------- predict_step, continued
\* Shape of a + b under broadcasting of two three-dimensional shapes; <<>> when
\* the shapes do not broadcast.
Broadcast(s1, s2) ==
    IF \A i \in 1..3 : s1[i] = s2[i] \/ s1[i] = 1 \/ s2[i] = 1
    THEN [i \in 1..3 |-> IF s1[i] = 1 THEN s2[i] ELSE s1[i]]
    ELSE <<>>

\* Output mapping (hidden_dim -> output_dim): the last dimension of output_map.
OutputMapDim == GridStateDim

\* Mutant of Rescale: the mean is added before the scaling.
RescaleShiftFirst(out) == (out + graph.step_diff_mean) * graph.step_diff_std

\* Rescale with the one-step difference statistics.
Rescale(out) == out * graph.step_diff_std + graph.step_diff_mean

\* Residual connection for the full state.
Residual(prev, rescaled_net_output) == prev + rescaled_net_output

\* Map back from mesh to grid, map to the output dimension, rescale and add
\* the residual.  nv is the value output_map computes for the element followed.
Decode(nv) ==
    /\ pc = "decode"
    /\ LET m2g_emb_expanded == ExpandToBatch(m2g_emb, batch_size)
           k == Len(ops) + 1
           new_grid_rep == NetNode(M2GGnn, mesh_rep, grid_rep, m2g_emb_expanded, k)
           out == [shape |-> <<new_grid_rep.b, Len(new_grid_rep.rows), OutputMapDim>>,
                   val |-> nv]
           out_shape == Broadcast(prev_state.shape, out.shape)
       IN IF ~NetOK(M2GGnn, mesh_rep, grid_rep, m2g_emb_expanded) \/ out_shape = <<>>
          THEN Fail
          ELSE /\ grid_rep' = new_grid_rep
               /\ ops' = Append(ops, OpRec(M2GGnn, "DECODE", 0, mesh_rep, grid_rep,
                                           m2g_emb_expanded))
               /\ net_output' = out
               /\ result' = [shape |-> out_shape,
                             val |-> Residual(prev_state.val, Rescale(out.val))]
               /\ pc' = "done"
               /\ UNCHANGED <<cfgVars, prev_state, batch_size, m2g_emb, mesh_rep,
                              mesh_rep_levels, mesh_same_rep, mesh_up_rep, mesh_down_rep,
                              mesh_edge_rep, level_l, layer, phaseLog, procIn, procOut,
                              repStart>>

\* predict_step has returned (or raised); the caller makes the next call.  The
\* representations of the finished call are discarded.
NextCall ==
    /\ pc \in {"done", "error"}
    /\ pc' = "idle"
    /\ prev_state' = NoState
    /\ batch_size' = 0
    /\ grid_rep' = NoTensor
    /\ m2g_emb' = NoTensor
    /\ mesh_rep' = NoTensor
    /\ mesh_rep_levels' = NoList
    /\ mesh_same_rep' = NoList
    /\ mesh_up_rep' = NoList
    /\ mesh_down_rep' = NoList
    /\ mesh_edge_rep' = NoTensor
    /\ level_l' = 0
    /\ layer' = 0
    /\ ops' = <<>>
    /\ phaseLog' = <<>>
    /\ procIn' = NoLists
    /\ procOut' = NoLists
    /\ repStart' = NoList
    /\ net_output' = NoState
    /\ result' = NoState
    /\ UNCHANGED cfgVars

Next ==
    \/ Construct
    \/ \E B \in BatchSizes, f \in 1..(GridStateDim + 1), v \in StateVals :
          PredictStart(B, f, v)
    \/ HiEmbed
    \/ InitStep
    \/ ProcessorEnter
    \/ ParJoin
    \/ ParIdentity
    \/ ParLayer
    \/ ParSplit
    \/ DownTop
    \/ DownStep
    \/ UpBottom
    \/ UpStep
    \/ SeqReturn
    \/ ProcessorReturn
    \/ ReadStep
    \/ ProcessReturn
    \/ FlatEmbed
    \/ FlatLayer
    \/ \E nv \in NetVals : Decode(nv)
    \/ NextCall

Spec == Init /\ [][Next]_vars

\* ================================================================ properties
PhaseOrder == <<"INIT", "PROCESS", "READOUT">>

\* The phase a net family belongs to.
FamPhase(fam) ==
    CASE fam = "g2m" -> "ENCODE"
      [] fam = "init" -> "INIT"
      [] fam = "read" -> "READOUT"
      [] fam = "m2g" -> "DECODE"
      [] OTHER -> "PROCESS"

\* The node output of the k-th Interaction Net application of the call.
OpNode(k) == NetNode(ops[k].net, ops[k].send, ops[k].rec, ops[k].edge, k)

\* The mesh_rep that predict_step passes to process_step.
ProcessInput == OpNode(1)

\* One step of a hierarchical model keeps the phase order: a phase is entered
\* only as the successor of the phase entered last, and a net is applied only
\* in the phase its family belongs to.
PhaseStep ==
    IsHi(hp.model) =>
        /\ phaseLog' # phaseLog =>
              \/ phaseLog' = <<>>
              \/ /\ Len(phaseLog) < Len(PhaseOrder)
                 /\ phaseLog' = Append(phaseLog, PhaseOrder[Len(phaseLog) + 1])
        /\ \A k \in (Len(ops) + 1)..Len(ops') :
              \/ FamPhase(ops'[k].net.fam) \in {"ENCODE", "DECODE"}
              \/ /\ phaseLog' # <<>>
                 /\ FamPhase(ops'[k].net.fam) = phaseLog'[Len(phaseLog')]

\* C1: in every process call of a hierarchical model the phases run in the
\* order INIT, PROCESS, READOUT: every init net is applied before the
\* processor is entered, every read-out net after it, each phase is entered
\* once, and a call that returns has been through all three.
C1_StrictPhaseOrder ==
    /\ [][PhaseStep]_vars
    /\ []((IsHi(hp.model) /\ pc \in {"decode", "done"}) => phaseLog = PhaseOrder)

C1_Witness ==
    /\ hp.model = "hi_lam" /\ hp.processor_layers = 2 /\ self.N_levels = 3
    /\ pc = "done"
    /\ phaseLog = PhaseOrder
    /\ \E i, j, k \in DOMAIN ops :
          /\ i < j /\ j < k
          /\ ops[i].net.fam = "init" /\ ops[j].net.fam = "up" /\ ops[k].net.fam = "read"

ParallelNoLayers == hp.model = "hi_lam_parallel" /\ hp.processor_layers = 0

\* C2 as stated: with processor_layers = 0 the level-0 representation that
\* HiLAMParallel's process returns is the level-0 representation as it stood
\* at the end of the init phase.
C2_OutputIsInitResult ==
    (ParallelNoLayers /\ pc = "decode") => mesh_rep = procIn.nodes[0]

\* C2 amended: with processor_layers = 0 the processor phase of HiLAMParallel
\* applies no net, and the level-0 representation process returns is the
\* read-out of the init-phase result: every read-out step receives into the
\* init-phase representation of its level over the embedded down-edge
\* representation, sending from the init-phase top level or from the
\* previous read-out step, and the last step's output is returned.
C2_OutputIsReadOutOfInitResult ==
    (ParallelNoLayers /\ pc = "decode") =>
        /\ \A k \in DOMAIN ops : FamPhase(ops[k].net.fam) # "PROCESS"
        /\ \A k \in DOMAIN ops :
              ops[k].net.fam = "read" =>
                 /\ ops[k].rec = procIn.nodes[ops[k].lvl]
                 /\ ops[k].edge = procIn.down[ops[k].lvl]
                 /\ ops[k].send = IF ops[k].lvl = self.N_levels - 2
                                  THEN procIn.nodes[self.N_levels - 1]
                                  ELSE OpNode(k - 1)
        /\ ops[Len(ops)].net.fam = "read" /\ ops[Len(ops)].lvl = 0
        /\ mesh_rep = OpNode(Len(ops))

C2_Witness ==
    /\ ParallelNoLayers /\ pc = "decode" /\ self.N_levels = 3
    /\ mesh_rep # procIn.nodes[0]
    /\ Cardinality({k \in DOMAIN ops : ops[k].net.fam = "read"}) = 2

\* C3: the value process returns for a hierarchical model has N_mesh_levels[0]
\* nodes and the batch and hidden dimensions of the mesh_rep it was given.
C3_BottomNodeCount ==
    (IsHi(hp.model) /\ pc = "decode") =>
        Shape(mesh_rep) = <<ProcessInput.b, self.N_mesh_levels[0], ProcessInput.d>>

C3_Witness ==
    /\ hp.model = "hi_lam_parallel" /\ hp.processor_layers = 2 /\ pc = "decode"
    /\ self.N_levels = 3
    /\ self.N_mesh_levels[0] = 1 /\ self.N_mesh_levels[1] = 2 /\ self.N_mesh_levels[2] = 2
    /\ batch_size = 2
    /\ Shape(mesh_rep) = <<2, 1, HiddenDim>>

\* ---------------------------------------------------------------- sweeps
\* The applications of the net (fam, rep, idx) recorded so far.
NetOps(fam, rep, idx) ==
    {k \in 1..Len(ops) :
        ops[k].net.fam = fam /\ ops[k].net.rep = rep /\ ops[k].net.idx = idx}

\* The down-sweep / the up-sweep of repetition r has been completed.
DownSweepDone(r) == layer > r \/ (layer = r /\ pc \in {"up_bottom", "up_loop"})

UpSweepDone(r) == layer > r

SameLevelOps(fam, r, l, done) ==
    /\ Cardinality(NetOps(fam, r, l)) <= 1
    /\ done => Cardinality(NetOps(fam, r, l)) = 1
    /\ \A k \in NetOps(fam, r, l) :
          /\ ops[k].lvl = l
          /\ ops[k].send = ops[k].rec
          /\ ops[k].net.index = graph.m2m_edge_index[l]

\* C4: in sequential HiLAM every completed down-sweep has applied the same-level
\* net of every level 0..L-1 exactly once, on that level, and every completed
\* up-sweep has applied the same-level net of every level 0..L-1 exactly once;
\* no same-level net of a sweep is ever applied twice.
C4_SameLevelOncePerSweep ==
    (hp.model = "hi_lam" /\ pc \notin {"new", "ctor_failed"}) =>
        \A r \in 0..(hp.processor_layers - 1) : \A l \in 0..(self.N_levels - 1) :
            /\ SameLevelOps("down_same", r, l, DownSweepDone(r))
            /\ SameLevelOps("up_same", r, l, UpSweepDone(r))

\* One processing layer and two levels, after the down- and the up-sweep.
C4_Witness ==
    /\ hp.model = "hi_lam" /\ hp.processor_layers = 1 /\ self.N_levels = 2
    /\ pc = "seq_loop" /\ layer = 1
    /\ \A l \in 0..1 : /\ Cardinality(NetOps("down_same", 0, l)) = 1
                       /\ Cardinality(NetOps("up_same", 0, l)) = 1

\* The levels whose representation at the start of the current repetition the
\* tensor t has been computed from, following the sender and receiver
\* arguments of the net applications.
RECURSIVE Deps(_)
Deps(t) ==
    IF \E l \in DOMAIN repStart : repStart[l] = t
    THEN {l \in DOMAIN repStart : repStart[l] = t}
    ELSE IF Len(t.rows) > 0 /\ t.rows[1].k = "n"
         THEN UNION {Deps(x) : x \in {ops[t.rows[1].s].send, ops[t.rows[1].s].rec}}
         ELSE {}

\* C5: in sequential HiLAM, after a full repetition (down-sweep, then up-sweep)
\* the node representation of every level depends on the node representation
\* every level had before the repetition.
C5_EveryLevelReachesEveryLevel ==
    (hp.model = "hi_lam" /\ pc = "seq_loop" /\ layer >= 1) =>
        /\ DOMAIN repStart = 0..(self.N_levels - 1)
        /\ \A l \in DOMAIN mesh_rep_levels :
              Deps(mesh_rep_levels[l]) = 0..(self.N_levels - 1)

C5_Witness ==
    /\ hp.model = "hi_lam" /\ self.N_levels = 3
    /\ pc = "seq_loop" /\ layer = 1
    /\ 0 \in Deps(mesh_rep_levels[2])
    /\ 2 \in Deps(mesh_rep_levels[0])
    /\ repStart[0] # mesh_rep_levels[0]

\* ------------------------------------------------------ parallel processor
\* The section of sizes that position j (1-based) falls into.
ChunkOf(sizes, j) ==
    CHOOSE i \in DOMAIN sizes : SumTo(sizes, i) < j /\ j <= SumTo(sizes, i) + sizes[i]

InChunks(sizes, j) ==
    \E i \in DOMAIN sizes : SumTo(sizes, i) < j /\ j <= SumTo(sizes, i) + sizes[i]

\* Chunk i of L same-level, L-1 up and L-1 down chunks: the level its edges
\* lead into and the level they come from.
ChunkRecLevel(i, L) ==
    IF i < L THEN i ELSE IF i < L + (L - 1) THEN (i - L) + 1 ELSE i - (L + (L - 1))

ChunkSendLevel(i, L) ==
    IF i < L THEN i ELSE IF i < L + (L - 1) THEN i - L ELSE (i - (L + (L - 1))) + 1

\* The chunk whose edges an edge representation row was embedded for.
RECURSIVE EdgeRowChunk(_, _)
EdgeRowChunk(row, L) ==
    CASE row.k = "same_emb" -> row.s
      [] row.k = "up_emb" -> L + row.s
      [] row.k = "down_emb" -> L + (L - 1) + row.s
      [] row.k = "e" -> EdgeRowChunk(ops[row.s].edge.rows[row.i], L)
      [] OTHER -> -1

\* The level whose mesh nodes a node representation row stands for.
RECURSIVE NodeRowLevel(_)
NodeRowLevel(row) ==
    CASE row.k = "mesh_emb" -> row.s
      [] row.k = "n" -> NodeRowLevel(ops[row.s].rec.rows[row.i])
      [] OTHER -> -1

ParOps == {k \in 1..Len(ops) : ops[k].net.fam = "par"}

\* C6: every net of the parallel processor is chunked by edge_split_sections
\* (L same-level sections, then L-1 up, then L-1 down, with the sizes of the
\* graph's edge indices) and by N_mesh_levels; the edge representation row at
\* position j was embedded for the chunk position j falls into, and the edge at
\* position j leads from a node of that chunk's sender level into a node of
\* that chunk's receiver level, so a node of level l receives only over
\* same-level edges of l, up edges from l-1 and down edges from l+1.
C6_ChunksRespectLevels ==
    \A k \in ParOps :
        LET net == ops[k].net
            L == self.N_levels
        IN /\ net.aggr_chunk_sizes = graph.mesh_static_features
           /\ DOMAIN net.edge_chunk_sizes = 0..(L + (L - 1) + (L - 1) - 1)
           /\ \A i \in 0..(L - 1) :
                 net.edge_chunk_sizes[i] = Len(graph.m2m_edge_index[i])
           /\ \A i \in 0..(L - 2) :
                 /\ net.edge_chunk_sizes[L + i] = Len(graph.mesh_up_edge_index[i])
                 /\ net.edge_chunk_sizes[L + (L - 1) + i] =
                        Len(graph.mesh_down_edge_index[i])
           /\ Len(ops[k].edge.rows) = Len(net.index)
           /\ \A j \in 1..Len(net.index) :
                 LET c == ChunkOf(net.edge_chunk_sizes, j)
                     snd == net.index[j][1] + 1
                     rcv == net.index[j][2] + 1
                 IN /\ InChunks(net.edge_chunk_sizes, j)
                    /\ EdgeRowChunk(ops[k].edge.rows[j], L) = c
                    /\ InChunks(net.aggr_chunk_sizes, rcv)
                    /\ InChunks(net.aggr_chunk_sizes, snd)
                    /\ ChunkOf(net.aggr_chunk_sizes, rcv) = ChunkRecLevel(c, L)
                    /\ ChunkOf(net.aggr_chunk_sizes, snd) = ChunkSendLevel(c, L)
                    /\ NodeRowLevel(ops[k].rec.rows[rcv]) = ChunkRecLevel(c, L)
                    /\ NodeRowLevel(ops[k].send.rows[snd]) = ChunkSendLevel(c, L)

\* Two parallel layers over three levels with different numbers of up and
\* down edges have run.
C6_Witness ==
    /\ hp.model = "hi_lam_parallel" /\ hp.processor_layers = 2 /\ self.N_levels = 3
    /\ pc = "par_split"
    /\ Cardinality(ParOps) = 2
    /\ Len(graph.mesh_up_edge_index[0]) # Len(graph.mesh_down_edge_index[0])
    /\ self.N_mesh_levels[0] # self.N_mesh_levels[1]

\* ------------------------------------------------------------ predict_step
\* C7: predict_step is an additive residual: the value returned is
\* prev_state + net_output * step_diff_std + step_diff_mean, and it is
\* prev_state itself when the network output is zero and step_diff_mean = 0.
C7_AdditiveResidual ==
    pc = "done" =>
        /\ result.val = prev_state.val + net_output.val * graph.step_diff_std
                         + graph.step_diff_mean
        /\ (net_output.val = 0 /\ graph.step_diff_mean = 0) =>
               result.val = prev_state.val

C7_Witness ==
    /\ pc = "done"
    /\ net_output.val = 0 /\ graph.step_diff_mean = 0 /\ graph.step_diff_std = 2
    /\ prev_state.val = 2 /\ result.val = 2

\* C8: for every model variant, every batch size and the feature dimension
\* the model was built for, the value predict_step returns has the shape of
\* prev_state, (B, N_grid, grid_state_dim).
C8_OutputShape ==
    pc = "done" =>
        /\ result.shape = prev_state.shape
        /\ result.shape = <<batch_size, self.N_grid, GridStateDim>>

C8_Witness ==
    /\ pc = "done" /\ hp.model = "graph_lam"
    /\ batch_size = 2
    /\ result.shape = <<2, GridNodes, GridStateDim>>
    /\ prev_state.shape = result.shape

\* C9: joining the per-level node tensors along the node axis and splitting
\* the joined tensor by N_mesh_levels gives back the per-level tensors, in
\* the original level order.
C9_CatSplitRoundTrip ==
    (hp.model = "hi_lam_parallel" /\ pc = "par_call" /\ layer = 0) =>
        /\ SplitOK(mesh_rep, self.N_mesh_levels)
        /\ SplitNodes(mesh_rep) = mesh_rep_levels
        /\ Split(Cat(mesh_rep_levels), self.N_mesh_levels) = mesh_rep_levels

C9_Witness ==
    /\ hp.model = "hi_lam_parallel" /\ pc = "par_call" /\ layer = 0
    /\ self.N_levels = 3
    /\ self.N_mesh_levels[0] = 1 /\ self.N_mesh_levels[1] = 2
    /\ Len(mesh_rep.rows) = SumList(self.N_mesh_levels)
    /\ SplitNodes(mesh_rep)[1] = mesh_rep_levels[1]

\* C10: with processor_layers = 0 the hi_processor_step of HiLAMParallel
\* returns node, same-level, up and down representation lists equal, level by
\* level and element for element, to the lists it was given.
C10_NoLayersIdentity ==
    (ParallelNoLayers /\ pc = "proc_return") =>
        /\ procOut.nodes = procIn.nodes
        /\ procOut.same = procIn.same
        /\ procOut.up = procIn.up
        /\ procOut.down = procIn.down
        /\ Len(ops) = self.N_levels

C10_Witness ==
    /\ ParallelNoLayers /\ pc = "proc_return"
    /\ self.N_levels = 3
    /\ ListLen(procIn.up) = 2 /\ ListLen(procIn.same) = 3
    /\ procOut.up = procIn.up /\ procOut.nodes = procIn.nodes
    /\ Len(graph.mesh_up_edge_index[0]) # Len(graph.mesh_down_edge_index[0])

\* ------------------------------------------- train_vincent.py: entry point
EvalModes == {"none", "val", "test", "other"}     \* --eval; "none" is None

ModelNames == Models \cup {"unknown"}             \* --model

DatasetNames == {"titan", "smeagol"}              \* --dataset (argparse choices)

\* The model variables while only the script is followed.
ModelOff ==
    /\ hp = [model |-> "graph_lam", processor_layers |-> 1]
    /\ graph = CHOOSE g \in FlatGraphs : TRUE
    /\ self = NoSelf
    /\ other_attrs = {}
    /\ pc = "off"
    /\ FrameInit
    /\ firstCall = NoCall

\* The command line has been parsed (line 149).
InitMain ==
    /\ args \in [eval : EvalModes, model : ModelNames, dataset : DatasetNames,
                 load : BOOLEAN]
    /\ spc = "asserts"
    /\ eval_loader = "unbound"
    /\ trainerLog = <<>>
    /\ RegistryOff
    /\ ModelOff

modelVars == <<hp, graph, self, other_attrs, pc, frameVars, firstCall>>

\* Asserts for arguments.
CheckArgs ==
    /\ spc = "asserts"
    /\ spc' = IF args.model \in Models /\ args.eval \in {"none", "val", "test"}
              THEN "datasets" ELSE "assertion_error"
    /\ UNCHANGED <<args, eval_loader, trainerLog, modelVars, registryVars>>

\* The training, validation and test datasets are created.
InitDatasets ==
    /\ spc = "datasets"
    /\ spc' = "model"
    /\ UNCHANGED <<args, eval_loader, trainerLog, modelVars, registryVars>>

\* model_class(hp) or model_class.load_from_checkpoint: returns, or raises.
MakeModel(ok) ==
    /\ spc = "model"
    /\ spc' = IF ok THEN "main" ELSE "model_error"
    /\ UNCHANGED <<args, eval_loader, trainerLog, modelVars, registryVars>>

\* main up to the test of tp.evaluation: None is the only falsy value the
\* asserts let through.
MainStart ==
    /\ spc = "main"
    /\ spc' = IF args.eval # "none" THEN "eval" ELSE "fit"
    /\ UNCHANGED <<args, eval_loader, trainerLog, modelVars, registryVars>>

\* if tp.evaluation == "val": eval_loader = val_loader; eval_loader = test_loader
EvalSelect ==
    /\ spc = "eval"
    /\ eval_loader' = IF args.eval = "val" THEN "test_loader" ELSE eval_loader
    /\ spc' = "test_call"
    /\ UNCHANGED <<args, trainerLog, modelVars, registryVars>>

\* trainer.test(model=model, dataloaders=eval_loader); reading a local that
\* was never assigned raises UnboundLocalError.
TrainerTest ==
    /\ spc = "test_call"
    /\ IF eval_loader = "unbound"
       THEN spc' = "unbound_local_error" /\ UNCHANGED trainerLog
       ELSE /\ trainerLog' = Append(trainerLog,
                                    [fn |-> "test", loaders |-> <<eval_loader>>])
            /\ spc' = "exit"
    /\ UNCHANGED <<args, eval_loader, modelVars, registryVars>>

\* trainer.fit(model=model, train_dataloaders=train_loader, val_dataloaders=val_loader)
TrainerFit ==
    /\ spc = "fit"
    /\ trainerLog' = Append(trainerLog,
                            [fn |-> "fit", loaders |-> <<"train_loader", "val_loader">>])
    /\ spc' = "exit"
    /\ UNCHANGED <<args, eval_loader, modelVars, registryVars>>

NextMain ==
    \/ CheckArgs
    \/ InitDatasets
    \/ \E ok \in BOOLEAN : MakeModel(ok)
    \/ MainStart
    \/ EvalSelect
    \/ TrainerTest
    \/ TrainerFit

SpecMain == InitMain /\ [][NextMain]_vars

ScriptEnded == spc \in {"exit", "unbound_local_error"}

\* C11: the entry point honours the evaluation mode: with 'val' the model is
\* tested on the validation loader, with 'test' on the test loader, and
\* with no mode it is fitted with the train and validation loaders and not
\* tested; fit and test are never both run.
C11_EvalModeHonoured ==
    /\ Len(trainerLog) <= 1
    /\ ScriptEnded =>
          /\ args.eval = "val" =>
                trainerLog = <<[fn |-> "test", loaders |-> <<"val_loader">>]>>
          /\ args.eval = "test" =>
                trainerLog = <<[fn |-> "test", loaders |-> <<"test_loader">>]>>
          /\ args.eval = "none" =>
                trainerLog = <<[fn |-> "fit",
                                loaders |-> <<"train_loader", "val_loader">>]>>

\* ------------------------------------------ py4cast/datasets/__init__.py
\* What importing a dataset implementation does: it succeeds, or raises.
\* ModuleNotFoundError is the ImportError a missing dependency raises.
ImportOutcomes == {"ok", "ImportError", "ModuleNotFoundError", "FileNotFoundError"}

DatasetKeys == {"smeagol", "titan", "unknown"}    \* names asked of get_datasets

ConfigFiles == {"None", "custom.json"}

InitRegistry ==
    /\ importOutcome \in [smeagol : ImportOutcomes, titan : ImportOutcomes]
    /\ registry = {}
    /\ warningLog = <<>>
    /\ rpc = "import_smeagol"
    /\ lookup = NoLookup
    /\ ScriptOff
    /\ ModelOff

\* Mutant of CaughtForSmeagol: only the exception class itself is caught.
CaughtExactly(o) == o = "ImportError"

\* except ImportError: an exception of the class or of a subclass is caught.
CaughtForSmeagol(o) == o \in {"ImportError", "ModuleNotFoundError"}

\* except (ImportError, FileNotFoundError, ModuleNotFoundError)
CaughtForTitan(o) == o \in {"ImportError", "FileNotFoundError", "ModuleNotFoundError"}

\* try: from .smeagol import SmeagolDataset; registry["smeagol"] = ...
RegisterSmeagol ==
    /\ rpc = "import_smeagol"
    /\ LET o == importOutcome.smeagol
       IN IF o = "ok"
          THEN /\ registry' = registry \cup {"smeagol"}
               /\ rpc' = "import_titan"
               /\ UNCHANGED warningLog
          ELSE IF CaughtForSmeagol(o)
          THEN /\ warningLog' = Append(warningLog, "Could not import SmeagolDataset")
               /\ rpc' = "import_titan"
               /\ UNCHANGED registry
          ELSE /\ rpc' = "import_failed"
               /\ UNCHANGED <<registry, warningLog>>
    /\ UNCHANGED <<importOutcome, lookup, scriptVars, modelVars>>

\* try: from .titan import TitanDataset; registry["titan"] = ...
RegisterTitan ==
    /\ rpc = "import_titan"
    /\ LET o == importOutcome.titan
       IN IF o = "ok"
          THEN /\ registry' = registry \cup {"titan"}
               /\ rpc' = "ready"
               /\ UNCHANGED warningLog
          ELSE IF CaughtForTitan(o)
          THEN /\ warningLog' = Append(warningLog, "Could not import TitanDataset")
               /\ rpc' = "ready"
               /\ UNCHANGED registry
          ELSE /\ rpc' = "import_failed"
               /\ UNCHANGED <<registry, warningLog>>
    /\ UNCHANGED <<importOutcome, lookup, scriptVars, modelVars>>

\* The pair registered under a name: the dataset class and its default
\* configuration file under default_config_root.
RegisteredClass(name) == IF name = "smeagol" THEN "SmeagolDataset" ELSE "TitanDataset"

\* Mutant of DefaultConfig: every dataset falls back to smeagol.json.
DefaultConfigShared(name) == "smeagol.json"

DefaultConfig(name) == name \o ".json"

\* get_datasets(name, ..., config_file): the lookup raises ValueError for a
\* name that is not a key of the registry; otherwise from_json of the class
\* registered returns the three datasets (loaded) or raises its own error.
GetDatasets(name, config_file, loaded) ==
    /\ rpc = "ready"
    /\ lookup' =
          [name |-> name,
           asked |-> config_file,
           kls |-> IF name \in registry THEN RegisteredClass(name) ELSE "",
           config_file |-> IF name \in registry /\ config_file = "None"
                           THEN DefaultConfig(name) ELSE config_file,
           outcome |-> IF name \notin registry THEN "ValueError"
                       ELSE IF loaded THEN "train_val_test" ELSE "from_json_error"]
    /\ UNCHANGED <<importOutcome, registry, warningLog, rpc, scriptVars, modelVars>>

NextRegistry ==
    \/ RegisterSmeagol
    \/ RegisterTitan
    \/ \E name \in DatasetKeys, config_file \in ConfigFiles, loaded \in BOOLEAN :
          GetDatasets(name, config_file, loaded)

SpecRegistry == InitRegistry /\ [][NextRegistry]_vars

MissingDependency(o) == o \in {"ImportError", "ModuleNotFoundError"}

Warned(text) == \E i \in 1..Len(warningLog) : warningLog[i] = text

\* C12: an implementation whose import fails for a missing dependency is
\* reported by a warning, does not stop the building of the registry and
\* leaves every implementation that imports registered; afterwards
\* get_datasets raises ValueError exactly for the names that are not in the
\* registry.
C12_RegistryLooseCoupling ==
    /\ rpc = "import_failed" => ~MissingDependency(importOutcome.smeagol)
    /\ (rpc \in {"import_titan", "ready"} /\ MissingDependency(importOutcome.smeagol)) =>
          Warned("Could not import SmeagolDataset") /\ "smeagol" \notin registry
    /\ rpc = "ready" =>
          /\ MissingDependency(importOutcome.titan) =>
                Warned("Could not import TitanDataset") /\ "titan" \notin registry
          /\ \A d \in {"smeagol", "titan"} : d \in registry <=> importOutcome[d] = "ok"
          /\ lookup.outcome # "none" =>
                (lookup.outcome = "ValueError" <=> lookup.name \notin registry)

\* The import of titan fails for a missing module, smeagol stays registered
\* and titan is then asked for.
C12_Witness ==
    /\ rpc = "ready"
    /\ importOutcome = [smeagol |-> "ok", titan |-> "ModuleNotFoundError"]
    /\ registry = {"smeagol"}
    /\ Warned("Could not import TitanDataset")
    /\ lookup.name = "titan" /\ lookup.outcome = "ValueError"

\* ----------------------------------------------- graphs of any static data
\* list[:-1]
DropLast(list) == ListSlice(list, 0, ListLen(list) - 1)

\* Ways in which the static data load_graph returns can be inconsistent: an
\* edge feature tensor with one row more than its edge index has edges, or a
\* per-level list with an entry more or less than the level count asks for.
RowDefects == {"same_rows", "up_rows", "down_rows", "g2m_rows", "m2g_rows"}

LevelDefects == {"same_short", "same_index_short", "same_features_long",
                 "up_short", "up_index_short", "down_short", "down_index_short"}

Damage(g, d) ==
    CASE d = "none" -> g
      [] d = "same_rows" -> [g EXCEPT !.m2m_features[0] = @ + 1]
      [] d = "up_rows" -> [g EXCEPT !.mesh_up_features[0] = @ + 1]
      [] d = "down_rows" -> [g EXCEPT !.mesh_down_features[0] = @ + 1]
      [] d = "g2m_rows" -> [g EXCEPT !.g2m_features = @ + 1]
      [] d = "m2g_rows" -> [g EXCEPT !.m2g_features = @ + 1]
      [] d = "same_short" -> [g EXCEPT !.m2m_features = DropLast(@),
                                       !.m2m_edge_index = DropLast(@)]
      [] d = "same_index_short" -> [g EXCEPT !.m2m_edge_index = DropLast(@)]
      [] d = "same_features_long" ->
             [g EXCEPT !.m2m_features = ListPlus(@, [i \in 0..0 |-> 1])]
      [] d = "up_short" -> [g EXCEPT !.mesh_up_features = DropLast(@),
                                     !.mesh_up_edge_index = DropLast(@)]
      [] d = "up_index_short" -> [g EXCEPT !.mesh_up_edge_index = DropLast(@)]
      [] d = "down_short" -> [g EXCEPT !.mesh_down_features = DropLast(@),
                                       !.mesh_down_edge_index = DropLast(@)]
      [] d = "down_index_short" -> [g EXCEPT !.mesh_down_edge_index = DropLast(@)]

AnyHierGraphs ==
    {Damage(g, d) : g \in {h \in HierGraphs : h.step_diff_mean = 0},
                    d \in {"none"} \cup RowDefects \cup LevelDefects}

AnyFlatGraphs ==
    {Damage(g, d) : g \in {h \in FlatGraphs : h.step_diff_mean = 0},
                    d \in {"none", "same_rows", "g2m_rows", "m2g_rows"}}

\* As Init, with static data that need not be consistent.
InitAnyGraph ==
    /\ hp \in {h \in [model : Models, processor_layers : 0..MaxLayers] :
                  h.model = "graph_lam" => h.processor_layers >= 1}
    /\ graph \in IF IsHi(hp.model) THEN AnyHierGraphs ELSE AnyFlatGraphs
    /\ self = NoSelf
    /\ other_attrs \in OtherAttrs
    /\ pc = "new"
    /\ FrameInit
    /\ EnvOff

SpecAnyGraph == InitAnyGraph /\ [][Next]_vars

\* Some edge feature tensor has not one row per edge of its edge index.
RowsDiffer(features, index) ==
    \E l \in DOMAIN features \cap DOMAIN index : features[l] # Len(index[l])

EdgeFeatureMismatch ==
    \/ graph.g2m_features # Len(graph.g2m_edge_index)
    \/ graph.m2g_features # Len(graph.m2g_edge_index)
    \/ RowsDiffer(graph.m2m_features, graph.m2m_edge_index)
    \/ graph.hierarchical /\ RowsDiffer(graph.mesh_up_features, graph.mesh_up_edge_index)
    \/ graph.hierarchical /\ RowsDiffer(graph.mesh_down_features,
                                        graph.mesh_down_edge_index)

\* The model object does not exist: the constructor has not run, or has raised.
NotConstructed == pc \in {"new", "ctor_failed"}

\* C13: a mismatch between the number of edges of an edge index and the number
\* of rows of its edge features makes the construction of the model fail; no
\* model with such a mismatch exists, so none meets it first in a forward pass.
C13_MismatchFailsConstruction == EdgeFeatureMismatch => NotConstructed

\* The per-level lists disagree on the number of levels.
LevelCountMismatch ==
    LET L == ListLen(graph.mesh_static_features)
    IN \/ ListLen(graph.m2m_features) # L
       \/ ListLen(graph.m2m_edge_index) # L
       \/ ListLen(graph.mesh_up_features) # L - 1
       \/ ListLen(graph.mesh_up_edge_index) # L - 1
       \/ ListLen(graph.mesh_down_features) # L - 1
       \/ ListLen(graph.mesh_down_edge_index) # L - 1

\* C14: if the per-level lists disagree on the number of levels, the
\* construction of the hierarchical model fails; no such model is
\* constructed and run.
C14_LevelMismatchFailsConstruction ==
    (IsHi(hp.model) /\ LevelCountMismatch) => NotConstructed

\* ------------------------------------------------------- sequences of calls
\* One graph per level count, and a flat one.
CallGraphs ==
    {g \in HierGraphs \cup FlatGraphs :
        /\ g.step_diff_mean = 0
        /\ \A l \in DOMAIN g.mesh_static_features : g.mesh_static_features[l] = 2
        /\ g.hierarchical => /\ Len(g.mesh_up_edge_index[0]) = 1
                             /\ Len(g.mesh_down_edge_index[0]) = 2
        /\ ~g.hierarchical => g.m2m_features[0] = 1}

InitCalls ==
    /\ hp \in {h \in [model : Models, processor_layers : 0..MaxLayers] :
                  h.model = "graph_lam" => h.processor_layers >= 1}
    /\ graph \in {g \in CallGraphs : IsHi(hp.model) => g.hierarchical}
    /\ self = NoSelf
    /\ other_attrs \in OtherAttrs
    /\ pc = "new"
    /\ FrameInit
    /\ EnvOff

\* What a call was given, and what it computed: the net applications, the
\* grid representation decoded and the shape of the value returned.
CallArgs == prev_state

CallOut == <<ops, mesh_rep, grid_rep, result.shape>>

\* predict_step has returned (or raised) and the caller goes on to its next
\* call.  Nothing is reset: what the locals of the finished call held stays
\* where it was, so that a later call reading any of it would show.
Return ==
    /\ pc \in {"done", "error"}
    /\ pc' = "idle"
    /\ firstCall' = IF pc = "done" /\ firstCall = NoCall
                    THEN [args |-> CallArgs, out |-> CallOut]
                    ELSE firstCall
    /\ UNCHANGED <<hp, graph, self, other_attrs, frameVars, scriptVars, registryVars>>

NextCalls ==
    \/ Construct
    \/ \E B \in BatchSizes, f \in 1..(GridStateDim + 1), v \in StateVals :
          PredictStart(B, f, v)
    \/ HiEmbed
    \/ InitStep
    \/ ProcessorEnter
    \/ ParJoin
    \/ ParIdentity
    \/ ParLayer
    \/ ParSplit
    \/ DownTop
    \/ DownStep
    \/ UpBottom
    \/ UpStep
    \/ SeqReturn
    \/ ProcessorReturn
    \/ ReadStep
    \/ ProcessReturn
    \/ FlatEmbed
    \/ FlatLayer
    \/ \E nv \in NetVals : Decode(nv)
    \/ Return

SpecCalls == InitCalls /\ [][NextCalls]_vars

\* Once the model is constructed no step changes the static data.
StaticUnchanged == pc # "new" => UNCHANGED <<hp, graph, self>>

\* C15: across any sequence of predict_step calls the static node and edge
\* features, the edge indices and the level partition are never modified, and
\* what a call computes is determined by its arguments and the static data: a
\* call given the arguments of an earlier call applies the same nets to the
\* same representations and returns a value of the same shape, whatever calls
\* came in between.
C15_CallsAreIndependent ==
    /\ [][StaticUnchanged]_vars
    /\ []((pc = "done" /\ firstCall # NoCall /\ firstCall.args = CallArgs) =>
             firstCall.out = CallOut)

\* A HiLAM call repeats the arguments of the first call after the first call
\* has left its lists behind.
C15_Witness ==
    /\ pc = "done" /\ hp.model = "hi_lam" /\ hp.processor_layers = 1
    /\ firstCall # NoCall /\ firstCall.args = CallArgs
    /\ firstCall.out = CallOut
    /\ Len(ops) > 4

\* ------------------------------------------------------- order of the nets
\* Position in ops of the first net application of repetition r of HiLAM: the
\* g2m net and the L-1 init nets come first, and a repetition applies 2L-1
\* nets going down and 2L-1 going up.
SweepLen == 2 * self.N_levels - 1

DownBase(r) == self.N_levels + r * (2 * SweepLen) + 1

UpBase(r) == DownBase(r) + SweepLen

\* The edge output of application k.
OpEdge(k) == NetEdge(ops[k].net, ops[k].send, ops[k].rec, ops[k].edge, k)

\* Application k used the net idx of family fam of repetition rep, built on
\* edge_index, at level lvl.
IsNet(k, fam, rep, idx, edge_index, lvl) ==
    /\ ops[k].net.fam = fam
    /\ ops[k].net.rep = rep
    /\ ops[k].net.idx = idx
    /\ ops[k].net.index = edge_index
    /\ ops[k].lvl = lvl

\* C16: a down-sweep of HiLAM first applies the same-level net to the top level
\* L-1 alone, then goes through the levels L-2, ..., 0 in descending order; at
\* level l it applies the down net from level l+1, as refined in this sweep,
\* into level l, which replaces the down-edge representation l, and directly
\* after it the same-level net of level l, whose output is the new level-l
\* representation; no other net is applied in between, and the levels not
\* yet visited are as they were.
C16_DownSweepOrder ==
    (hp.model = "hi_lam" /\ pc \in {"down_loop", "up_bottom"}) =>
        LET L == self.N_levels
            base == DownBase(layer)
            done == IF pc = "up_bottom" THEN L - 1 ELSE (L - 2) - level_l
        IN /\ Len(ops) = base + 2 * done
           /\ IsNet(base, "down_same", layer, L - 1, graph.m2m_edge_index[L - 1], L - 1)
           /\ ops[base].send = repStart[L - 1] /\ ops[base].rec = repStart[L - 1]
           /\ mesh_rep_levels[L - 1] = OpNode(base)
           /\ \A t \in 0..(done - 1) :
                 LET l == (L - 2) - t
                     d == base + 1 + 2 * t
                 IN /\ IsNet(d, "down", layer, l, graph.mesh_down_edge_index[l], l)
                    /\ ops[d].send = OpNode(d - 1)
                    /\ ops[d - 1].lvl = l + 1
                    /\ ops[d].rec = repStart[l]
                    /\ mesh_down_rep[l] = OpEdge(d)
                    /\ mesh_down_rep[l] # ops[d].edge
                    /\ IsNet(d + 1, "down_same", layer, l, graph.m2m_edge_index[l], l)
                    /\ ops[d + 1].send = OpNode(d) /\ ops[d + 1].rec = OpNode(d)
                    /\ mesh_rep_levels[l] = OpNode(d + 1)
           /\ \A l \in 0..((L - 2) - done) : mesh_rep_levels[l] = repStart[l]

\* The down-sweep of the second repetition over three levels is complete.
C16_Witness ==
    /\ hp.model = "hi_lam" /\ self.N_levels = 3
    /\ pc = "up_bottom" /\ layer = 1
    /\ Len(ops) = DownBase(1) + 4
    /\ ops[DownBase(1) + 3].lvl = 0 /\ ops[DownBase(1) + 3].net.fam = "down"
    /\ mesh_rep_levels[0] = OpNode(Len(ops))

\* The level-l representation the down-sweep of the current repetition left.
AfterDown(r, l) ==
    IF l = self.N_levels - 1 THEN OpNode(DownBase(r))
    ELSE OpNode(DownBase(r) + 2 + 2 * ((self.N_levels - 2) - l))

\* C17: an up-sweep of HiLAM mirrors the down-sweep: it first applies the
\* same-level net to level 0 alone, then goes through the levels 1, ..., L-1
\* in ascending order; at level l it applies the up net from level l-1 into
\* level l, which replaces the up-edge representation l-1, directly followed
\* by the same-level net of level l; and in every repetition all nets of the
\* down-sweep are applied before the first net of the up-sweep.
C17_UpSweepOrder ==
    (hp.model = "hi_lam"
     /\ (pc = "up_loop" \/ (pc = "seq_loop" /\ layer >= 1))) =>
        LET L == self.N_levels
            r == IF pc = "up_loop" THEN layer ELSE layer - 1
            base == UpBase(r)
            done == IF pc = "up_loop" THEN level_l - 1 ELSE L - 1
        IN /\ Len(ops) = base + 2 * done
           /\ \A k \in DownBase(r)..(base - 1) :
                 ops[k].net.fam \in {"down", "down_same"} /\ ops[k].net.rep = r
           /\ \A k \in base..Len(ops) :
                 ops[k].net.fam \in {"up", "up_same"} /\ ops[k].net.rep = r
           /\ IsNet(base, "up_same", r, 0, graph.m2m_edge_index[0], 0)
           /\ ops[base].send = AfterDown(r, 0) /\ ops[base].rec = AfterDown(r, 0)
           /\ mesh_rep_levels[0] = OpNode(base)
           /\ \A t \in 0..(done - 1) :
                 LET l == t + 1
                     u == base + 1 + 2 * t
                 IN /\ IsNet(u, "up", r, l - 1, graph.mesh_up_edge_index[l - 1], l)
                    /\ ops[u].send = OpNode(u - 1)
                    /\ ops[u - 1].lvl = l - 1
                    /\ ops[u].rec = AfterDown(r, l)
                    /\ mesh_up_rep[l - 1] = OpEdge(u)
                    /\ mesh_up_rep[l - 1] # ops[u].edge
                    /\ IsNet(u + 1, "up_same", r, l, graph.m2m_edge_index[l], l)
                    /\ ops[u + 1].send = OpNode(u) /\ ops[u + 1].rec = OpNode(u)
                    /\ mesh_rep_levels[l] = OpNode(u + 1)
           /\ \A l \in (done + 1)..(L - 1) : mesh_rep_levels[l] = AfterDown(r, l)

\* The up-sweep of the second repetition over three levels is complete.
C17_Witness ==
    /\ hp.model = "hi_lam" /\ self.N_levels = 3
    /\ pc = "seq_loop" /\ layer = 2
    /\ Len(ops) = UpBase(1) + 4
    /\ ops[UpBase(1) + 3].lvl = 2 /\ ops[UpBase(1) + 3].net.fam = "up"
    /\ mesh_rep_levels[2] = OpNode(Len(ops))

\* The applications of the processor of HiLAM, and the repetition and sweep
\* direction application k belongs to by its position.
SeqOps == {k \in 1..Len(ops) : ops[k].phase = "PROCESS"}

RepetitionOf(k) == (k - (self.N_levels + 1)) \div (2 * SweepLen)

GoingDown(k) == (k - (self.N_levels + 1)) % (2 * SweepLen) < SweepLen

\* C18: in HiLAM the applications of repetition k use only the k-th down
\* nets and down-sweep same-level nets (going down) and the k-th up nets and
\* up-sweep same-level nets (going up); within one call no net instance
\* (family, repetition, level) is applied more than once.
C18_NetsNotShared ==
    hp.model = "hi_lam" =>
        /\ \A k \in SeqOps :
              /\ ops[k].net.rep = RepetitionOf(k)
              /\ ops[k].net.fam \in (IF GoingDown(k) THEN {"down", "down_same"}
                                     ELSE {"up", "up_same"})
        /\ \A j, k \in SeqOps :
              (ops[j].net.fam = ops[k].net.fam /\ ops[j].net.rep = ops[k].net.rep
               /\ ops[j].net.idx = ops[k].net.idx) => j = k

\* Two repetitions over two levels have run: twelve nets, all different.
C18_Witness ==
    /\ hp.model = "hi_lam" /\ hp.processor_layers = 2 /\ self.N_levels = 2
    /\ pc = "proc_return"
    /\ Cardinality(SeqOps) = 12
    /\ Cardinality({ops[k].net : k \in SeqOps}) = 12

\* The embedding process_step makes of the static features of level l.
MeshEmb(l) == ExpandToBatch(Embed("mesh_emb", l, graph.mesh_static_features[l]),
                            batch_size)

UpEmb(l) == ExpandToBatch(Embed("up_emb", l, graph.mesh_up_features[l]), batch_size)

\* C19: the init phase applies exactly L-1 init nets, for the levels 1, ...,
\* L-1 in ascending order; the net of level l sends from level l-1 as already
\* initialised (level 0 being the mesh_rep supplied) into the embedded level
\* l over the embedded up edges l-1, and replaces the level-l representation
\* and the up-edge representation l-1; level 0 stays the mesh_rep supplied.
C19_InitOrder ==
    (IsHi(hp.model) /\ pc \notin {"new", "ctor_failed", "idle", "error", "process"}) =>
        LET L == self.N_levels
            done == IF pc = "init" THEN level_l - 1 ELSE L - 1
        IN /\ {k \in 1..Len(ops) : ops[k].net.fam = "init"} = 2..(done + 1)
           /\ \A l \in 1..done :
                 /\ IsNet(l + 1, "init", 0, l - 1, graph.mesh_up_edge_index[l - 1], l)
                 /\ ops[l + 1].send = IF l = 1 THEN ProcessInput ELSE OpNode(l)
                 /\ ops[l + 1].rec = MeshEmb(l)
                 /\ ops[l + 1].edge = UpEmb(l - 1)
           /\ pc \in {"init", "processor"} =>
                 /\ mesh_rep_levels[0] = ProcessInput
                 /\ mesh_rep = ProcessInput
                 /\ \A l \in 1..done :
                       /\ mesh_rep_levels[l] = OpNode(l + 1)
                       /\ mesh_up_rep[l - 1] = OpEdge(l + 1)
                       /\ mesh_up_rep[l - 1] # UpEmb(l - 1)
                 /\ \A l \in (done + 1)..(L - 1) : mesh_rep_levels[l] = MeshEmb(l)

\* The init phase over three levels is over.
C19_Witness ==
    /\ IsHi(hp.model) /\ self.N_levels = 3 /\ pc = "processor"
    /\ Len(ops) = 3
    /\ ops[3].send = OpNode(2) /\ ops[3].lvl = 2
    /\ mesh_rep_levels[2] = OpNode(3)

\* A step of the read-out phase changes no edge representation.
ReadOutKeepsEdges ==
    pc = "readout" => UNCHANGED <<mesh_same_rep, mesh_up_rep, mesh_down_rep>>

\* C20: the read-out phase applies exactly L-1 read-out nets, for the levels
\* L-2, ..., 0 in descending order, the net of level l being the one built on
\* the down edge index l; it sends from the current level l+1 (the
\* processor's output for L-1, the read-out result otherwise) over the
\* down-edge representation l into level l, replaces only the level-l node
\* representation and changes no edge representation; process_step returns
\* the level-0 representation of the last read-out step.
C20_ReadOutOrder ==
    /\ [][ReadOutKeepsEdges]_vars
    /\ []((IsHi(hp.model) /\ pc \in {"readout", "process_return", "decode"}) =>
            LET L == self.N_levels
                done == IF pc = "readout" THEN (L - 2) - level_l ELSE L - 1
                base == Len(ops) - done
            IN /\ {k \in 1..Len(ops) : ops[k].net.fam = "read"} = (base + 1)..Len(ops)
               /\ mesh_down_rep = procOut.down
               /\ \A t \in 0..(done - 1) :
                     LET l == (L - 2) - t
                         k == base + 1 + t
                     IN /\ IsNet(k, "read", 0, l, graph.mesh_down_edge_index[l], l)
                        /\ ~ops[k].net.upd
                        /\ ops[k].send = IF t = 0 THEN procOut.nodes[L - 1]
                                         ELSE OpNode(k - 1)
                        /\ ops[k].rec = procOut.nodes[l]
                        /\ ops[k].edge = procOut.down[l]
                        /\ mesh_rep_levels[l] = OpNode(k)
               /\ \A l \in (L - 1 - done)..(L - 1) :
                     l = L - 1 - done => mesh_rep_levels[l] =
                         (IF done = 0 THEN procOut.nodes[l] ELSE OpNode(Len(ops)))
               /\ \A l \in 0..((L - 2) - done) : mesh_rep_levels[l] = procOut.nodes[l]
               /\ mesh_rep_levels[L - 1] = procOut.nodes[L - 1]
               /\ pc = "decode" => /\ mesh_rep = OpNode(Len(ops))
                                   /\ ops[Len(ops)].lvl = 0)

\* The read-out over three levels after two HiLAM repetitions has returned.
C20_Witness ==
    /\ hp.model = "hi_lam" /\ hp.processor_layers = 2 /\ self.N_levels = 3
    /\ pc = "decode"
    /\ ops[Len(ops)].net.fam = "read" /\ ops[Len(ops) - 1].net.fam = "read"
    /\ ops[Len(ops) - 1].send = procOut.nodes[2]
    /\ mesh_rep = OpNode(Len(ops))

\* ---------------------------------------- join and split of the edge lists
\* The edge lists handed to hi_processor_step, in the order same-level, up,
\* down, and the position of the first row of entry idx in their join.
EdgesGiven == ListPlus(ListPlus(procIn.same, procIn.up), procIn.down)

RECURSIVE RowsBefore(_, _)
RowsBefore(list, idx) ==
    IF idx = 0 THEN 0 ELSE RowsBefore(list, idx - 1) + Len(list[idx - 1].rows)

\* Section out of the returned lists is entry idx of the lists given: it has
\* as many edges, and its j-th edge is the j-th edge of that entry, as it is
\* (no layers) or as the last layer updated it.
SectionOf(out, idx) ==
    LET inp == EdgesGiven[idx]
        start == RowsBefore(EdgesGiven, idx)
    IN /\ Len(out.rows) = Len(inp.rows)
       /\ Len(inp.rows) = self.edge_split_sections[idx]
       /\ \A j \in 1..Len(out.rows) :
             IF hp.processor_layers = 0 THEN out.rows[j] = inp.rows[j]
             ELSE /\ out.rows[j] = [k |-> "e", s |-> Len(ops), i |-> start + j]
                  /\ ops[Len(ops)].net.fam = "par"
                  /\ Cat(EdgesGiven).rows[start + j] = inp.rows[j]

\* C21: the parallel processor joins the edge representations in the order
\* same-level (levels 0..L-1), up (0..L-2), down (0..L-2) and splits the
\* result by edge_split_sections; the first L sections are returned as the
\* same-level list, the next L-1 as the up list and the last L-1 as the down
\* list, each with the edge count of, and holding the edges of, the section
\* of the same family and level that was given.
C21_SplitRestoresFamilies ==
    /\ (hp.model = "hi_lam_parallel" /\ pc = "par_call" /\ layer = 0) =>
          /\ mesh_edge_rep = Cat(EdgesGiven)
          /\ ListLen(EdgesGiven) = 3 * self.N_levels - 2
    /\ (hp.model = "hi_lam_parallel" /\ pc = "proc_return") =>
          LET L == self.N_levels
          IN /\ DOMAIN procOut.same = 0..(L - 1)
             /\ DOMAIN procOut.up = 0..(L - 2)
             /\ DOMAIN procOut.down = 0..(L - 2)
             /\ \A l \in 0..(L - 1) : SectionOf(procOut.same[l], l)
             /\ \A l \in 0..(L - 2) : SectionOf(procOut.up[l], L + l)
             /\ \A l \in 0..(L - 2) : SectionOf(procOut.down[l], 2 * L - 1 + l)

\* Two layers over three levels with one up edge and two down edges between
\* the levels have been split back.
C21_Witness ==
    /\ hp.model = "hi_lam_parallel" /\ pc = "proc_return"
    /\ hp.processor_layers = 2 /\ self.N_levels = 3
    /\ Len(procIn.up[0].rows) = 1 /\ Len(procIn.down[0].rows) = 2
    /\ Len(procOut.up[1].rows) = 1 /\ Len(procOut.down[1].rows) = 2
    /\ procOut.down[1].rows[2].s = Len(ops)

\* --------------------------------------------------- constructing GraphLAM
\* C23: constructing GraphLAM succeeds exactly when the loaded graph is not
\* hierarchical: on a hierarchical graph it fails on the assertion, on a
\* non-hierarchical graph it runs to completion.
C23_GraphLAMNeedsFlatGraph ==
    (hp.model = "graph_lam" /\ pc # "new") =>
        IF graph.hierarchical
        THEN pc = "ctor_failed" /\ CtorError = "AssertionError"
        ELSE pc # "ctor_failed"

\* ------------------------------------------------------- the flat processor
\* The embedded m2m features, expanded to the batch.
M2MEmbExpanded == ExpandToBatch(Embed("m2m_emb", 0, graph.m2m_features[0]), batch_size)

\* C22: GraphLAM.process_step applies exactly processor_layers Interaction
\* Net layers, in construction order and all over the one mesh edge index;
\* the first receives mesh_rep and the embedded m2m features, every later
\* one the node and edge representations the previous layer returned; the
\* value returned is the node representation of the last layer and has the
\* node count of mesh_rep.
C22_FlatLayersChained ==
    (hp.model = "graph_lam" /\ pc \in {"flat_call", "decode"}) =>
        LET done == IF pc = "flat_call" THEN layer ELSE hp.processor_layers
        IN /\ Len(ops) = 1 + done
           /\ \A j \in 1..done :
                 LET k == 1 + j
                 IN /\ IsNet(k, "proc", j - 1, 0, graph.m2m_edge_index[0], 0)
                    /\ ops[k].net.upd
                    /\ ops[k].send = (IF j = 1 THEN ProcessInput ELSE OpNode(k - 1))
                    /\ ops[k].rec = ops[k].send
                    /\ ops[k].edge = (IF j = 1 THEN M2MEmbExpanded ELSE OpEdge(k - 1))
           /\ done >= 1 => /\ mesh_rep = OpNode(Len(ops))
                           /\ mesh_edge_rep = OpEdge(Len(ops))
           /\ Len(mesh_rep.rows) = Len(ProcessInput.rows)
           /\ mesh_rep.b = ProcessInput.b

\* Two layers have run on a mesh of two nodes and two edges.
C22_Witness ==
    /\ hp.model = "graph_lam" /\ hp.processor_layers = 2 /\ pc = "decode"
    /\ Len(ops) = 3
    /\ ops[3].send = OpNode(2) /\ ops[3].edge = OpEdge(2)
    /\ Len(mesh_rep.rows) = 2 /\ Len(ops[3].edge.rows) = 2

\* ------------------------------------------------- failure of the processor
\* The call raised while hi_processor_step was running.
ProcessorFailed ==
    /\ IsHi(hp.model) /\ pc = "error"
    /\ phaseLog # <<>> /\ phaseLog[Len(phaseLog)] = "PROCESS"

\* After an exception nothing of the call goes on: the next step is the
\* caller's, with nothing of the failed call kept.
ErrorIsFinal ==
    pc = "error" => /\ pc' = "idle"
                    /\ ops' = <<>> /\ phaseLog' = <<>>
                    /\ result' = NoState

\* C24: when the processor phase of a hierarchical process call fails on a
\* shape mismatch, the failure leaves process_step and predict_step: no
\* read-out step has run or runs afterwards, no output value is returned,
\* and nothing is retried; a call that returns a value has gone through all
\* three phases.
C24_ProcessorFailurePropagates ==
    /\ [][ErrorIsFinal]_vars
    /\ [](ProcessorFailed =>
            /\ \A k \in 1..Len(ops) : ops[k].phase # "READOUT"
            /\ \A k \in 1..Len(phaseLog) : phaseLog[k] # "READOUT"
            /\ net_output = NoState
            /\ result = NoState)
    /\ []((IsHi(hp.model) /\ pc = "done") =>
            /\ phaseLog = PhaseOrder
            /\ result # NoState)

\* HiLAM has applied nets of the processor and then failed in it.
C24_Witness ==
    /\ ProcessorFailed /\ hp.model = "hi_lam"
    /\ ops[Len(ops)].phase = "PROCESS"
    /\ result = NoState

\* ------------------------------------------- hand-off of the edge lists
\* The entry of the edge lists application k reads (and, with update_edges,
\* writes): init and up nets of level l use mesh_up_rep[l-1], down and
\* read-out nets of level l use mesh_down_rep[l], same-level nets
\* mesh_same_rep[l].
EdgeSlot(k) ==
    LET fam == ops[k].net.fam
    IN IF fam \in {"init", "up"} THEN <<"up", ops[k].lvl - 1>>
       ELSE IF fam \in {"down", "read"} THEN <<"down", ops[k].lvl>>
       ELSE IF fam \in {"down_same", "up_same"} THEN <<"same", ops[k].lvl>>
       ELSE <<"none", 0>>

\* The embedding process_step starts an entry with.
EdgeEmb(slot) ==
    LET features == IF slot[1] = "up" THEN graph.mesh_up_features
                    ELSE IF slot[1] = "down" THEN graph.mesh_down_features
                    ELSE graph.m2m_features
        kind == IF slot[1] = "up" THEN "up_emb"
                ELSE IF slot[1] = "down" THEN "down_emb" ELSE "same_emb"
    IN ExpandToBatch(Embed(kind, slot[2], features[slot[2]]), batch_size)

\* The applications before k that wrote the entry k reads, and the last of them.
EdgeWriters(k) == {j \in 1..(k - 1) : ops[j].net.upd /\ EdgeSlot(j) = EdgeSlot(k)}

LastWriter(k) == CHOOSE j \in EdgeWriters(k) : \A i \in EdgeWriters(k) : i <= j

\* Application k reads what the net of family fam of repetition rep wrote.
ReadsFrom(k, fam, rep) ==
    /\ EdgeWriters(k) # {}
    /\ ops[LastWriter(k)].net.fam = fam
    /\ ops[LastWriter(k)].net.rep = rep
    /\ ops[k].edge = OpEdge(LastWriter(k))

ReadsEmbedding(k) == EdgeWriters(k) = {} /\ ops[k].edge = EdgeEmb(EdgeSlot(k))

\* A step appends at most two applications, so every application is one of
\* the last two in the state after the step that made it.
RecentOps == {k \in 2..Len(ops) : k >= Len(ops) - 1}

\* C25: in HiLAM the up nets of the first up-sweep read the up-edge
\* representations the init phase wrote; every later net of a sweep reads
\* the edge representation the previous sweep using that entry left (up and
\* down nets the one of the previous repetition, same-level nets the one of
\* the sweep just before); the read-out net of level l reads the down-edge
\* representation the down-sweep of the last repetition wrote at level l, and
\* the initial embedding only when processor_layers = 0; read-out reads no
\* up-edge or same-level representation.
C25_EdgeHandOff ==
    hp.model = "hi_lam" =>
        \A k \in RecentOps :
            LET fam == ops[k].net.fam
                r == ops[k].net.rep
            IN /\ fam = "init" => ReadsEmbedding(k)
               /\ fam = "up" => IF r = 0 THEN ReadsFrom(k, "init", 0)
                                ELSE ReadsFrom(k, "up", r - 1)
               /\ fam = "down" => IF r = 0 THEN ReadsEmbedding(k)
                                  ELSE ReadsFrom(k, "down", r - 1)
               /\ fam = "down_same" => IF r = 0 THEN ReadsEmbedding(k)
                                       ELSE ReadsFrom(k, "up_same", r - 1)
               /\ fam = "up_same" => ReadsFrom(k, "down_same", r)
               /\ fam = "read" =>
                     /\ EdgeSlot(k)[1] = "down"
                     /\ IF hp.processor_layers = 0 THEN ReadsEmbedding(k)
                        ELSE ReadsFrom(k, "down", hp.processor_layers - 1)
                     /\ \A l \in DOMAIN procOut.up : ops[k].edge # procOut.up[l]
                     /\ \A l \in DOMAIN procOut.same : ops[k].edge # procOut.same[l]

\* After two repetitions over three levels the read-out has reached level 0.
C25_Witness ==
    /\ hp.model = "hi_lam" /\ hp.processor_layers = 2 /\ self.N_levels = 3
    /\ pc = "decode"
    /\ ops[Len(ops)].net.fam = "read" /\ ops[Len(ops)].lvl = 0
    /\ ReadsFrom(Len(ops), "down", 1)
    /\ ReadsFrom(UpBase(0) + 1, "init", 0)
    /\ ReadsFrom(UpBase(1), "down_same", 1)

\* ------------------------------------------------- HiLAM without repetitions
SequentialNoLayers == hp.model = "hi_lam" /\ hp.processor_layers = 0

\* C26: with processor_layers = 0 the hi_processor_step of HiLAM applies no
\* net and returns the node and edge lists it was given; process_step is the
\* init phase followed directly by the read-out.
C26_NoRepetitionsIdentity ==
    /\ (SequentialNoLayers /\ pc = "proc_return") =>
          /\ procOut = procIn
          /\ Len(ops) = self.N_levels
          /\ mesh_rep_levels = procIn.nodes /\ mesh_down_rep = procIn.down
    /\ (SequentialNoLayers /\ pc \in {"readout", "process_return", "decode"}) =>
          /\ procOut = procIn
          /\ \A k \in 1..Len(ops) : ops[k].phase # "PROCESS"
          /\ \A k \in 2..Len(ops) :
                ops[k].net.fam = (IF k <= self.N_levels THEN "init" ELSE "read")
          /\ Len(ops) > self.N_levels =>
                /\ ops[self.N_levels + 1].send = procIn.nodes[self.N_levels - 1]
                /\ ops[self.N_levels + 1].edge = procIn.down[self.N_levels - 2]
          /\ pc = "decode" => Len(ops) = 2 * self.N_levels - 1

\* Over three levels the read-out has directly followed the init phase.
C26_Witness ==
    /\ SequentialNoLayers /\ self.N_levels = 3 /\ pc = "decode"
    /\ Len(ops) = 5
    /\ ops[3].net.fam = "init" /\ ops[4].net.fam = "read"
    /\ ops[4].send = OpNode(3)
    /\ procOut = procIn

\* ------------------------------------------------- what get_datasets builds
\* C27: for a registered name get_datasets calls from_json of the class
\* registered under that name, with the caller's config_file when one is
\* given and with that dataset's own default configuration file exactly when
\* config_file is None; never with the class or the default of the other
\* dataset.
C27_OwnClassAndConfig ==
    (rpc = "ready" /\ lookup.outcome \in {"train_val_test", "from_json_error"}) =>
        /\ lookup.name \in registry
        /\ lookup.name = "smeagol" =>
              /\ lookup.kls = "SmeagolDataset"
              /\ lookup.config_file # "titan.json"
              /\ (lookup.config_file = "smeagol.json") = (lookup.asked = "None")
        /\ lookup.name = "titan" =>
              /\ lookup.kls = "TitanDataset"
              /\ lookup.config_file # "smeagol.json"
              /\ (lookup.config_file = "titan.json") = (lookup.asked = "None")
        /\ lookup.asked # "None" => lookup.config_file = lookup.asked

\* With both datasets registered, titan was asked for without a config file.
C27_Witness ==
    /\ rpc = "ready" /\ registry = {"smeagol", "titan"}
    /\ lookup.name = "titan" /\ lookup.asked = "None"
    /\ lookup.kls = "TitanDataset" /\ lookup.config_file = "titan.json"
    /\ lookup.outcome = "train_val_test"

====
